---- MODULE Spec2Model ----
(***************************************************************************)
(* Model of the MCP session/transport bridge of zai-cli:                   *)
(*   - the session store and getSession (lib/mcp-session-manager.ts),      *)
(*   - the session-based tool invoker callRemoteMcpTool (lib/mcp-client.ts)*)
(*   - the curl variant callMcpTool (lib/mcp-curl-client.ts).              *)
(* Text is modelled as a sequence of atoms (characters or tokens), a JSON  *)
(* value as a tagged record [t, v].                                        *)
(***************************************************************************)
EXTENDS Integers, Sequences, FiniteSets, TLC

\* ------------------------------------------------------------ bounds
\* Calls that may be started in one run, over both callers.
MaxCalls == 2
\* Clock advances in one run.
MaxTicks == 2
\* Chunks a response body arrives in.
MaxChunks == 2

\* ------------------------------------------------------------ constants
SESSION_TTL == 3600000

\* The concurrent callers (async tasks of one process). A caller calls
\* getSession itself, or callRemoteMcpTool, which calls getSession first.
Procs == {1, 2}

\* Endpoint and credential strings, as sequences of characters. getSession
\* is exported and takes arbitrary strings, so strings containing the key
\* separator are among them.
Endpoints == { <<"e">>, <<"e", "|", "k">> }
Credentials == { <<"k">>, <<"k", "|", "k">> }
\* The (endpoint, credential) pairs the callers use: two credentials for one
\* endpoint, and two endpoints for one credential.
Pairs ==
    { <<e, c>> : e \in Endpoints, c \in Credentials } \
        { << <<"e", "|", "k">>, <<"k", "|", "k">> >> }

\* Clock steps: one millisecond, and one millisecond short of the TTL, so
\* that both expiresAt - 1 and expiresAt are reached.
TickSteps == {1, SESSION_TTL - 1}

\* The contents the store file can have when a run starts.
FileShapes == {"missing", "unreadable", "invalid", "null", "emptyObject",
               "array", "store"}

\* ------------------------------------------------------------ session store
\* A session id is an opaque string issued by the remote service, a fresh one
\* for every session-open GET it answers. The model writes it as the serial
\* number n of the call whose GET it answers, tagged with the endpoint and
\* credential of that GET (the tag is not visible to the program). An id
\* issued before the run starts has n = 0.
NoId == [n |-> -1, endpoint |-> <<>>, apiKey |-> <<>>]

\* No record / undefined (cache.sessions[key] for an absent key).
NoRecord ==
    [key |-> <<>>, sessionId |-> NoId, endpoint |-> <<>>, createdAt |-> 0,
     expiresAt |-> 0]

EmptyStore == [shape |-> "store", sessions |-> {}]

\* const cacheKey = `${sseEndpoint}|${apiKey}`
CacheKey(sseEndpoint, apiKey) == sseEndpoint \o <<"|">> \o apiKey

\* loadSessions(): the parsed file, or an empty store when the file is
\* missing, unreadable or not JSON. A file holding valid JSON of another
\* shape is returned as parsed.
LoadSessions(f) ==
    IF f.shape \in {"missing", "unreadable", "invalid"} THEN EmptyStore
    ELSE f

\* Whether cache.sessions is an object: reading cache.sessions[key] or
\* Object.entries(cache.sessions) throws a TypeError otherwise.
HasSessions(cache) == cache.shape = "store"

\* cache.sessions[cacheKey]
Lookup(cache, key) ==
    IF \E r \in cache.sessions : r.key = key
    THEN CHOOSE r \in cache.sessions : r.key = key
    ELSE NoRecord

\* Two other validity tests (the comparison reversed, and a record still
\* valid at its expiresAt), against which the expiry properties are tested.
IsValidFlipped(cached, t) == cached.sessionId # NoId /\ cached.expiresAt < t

IsValidInclusive(cached, t) == cached.sessionId # NoId /\ cached.expiresAt >= t

\* cached && cached.expiresAt > now
IsValid(cached, t) == cached.sessionId # NoId /\ cached.expiresAt > t

\* cache.sessions[cacheKey] = { sessionId, endpoint, createdAt: now,
\*                              expiresAt: now + SESSION_TTL }
PutRecord(cache, key, id, sseEndpoint, t) ==
    [cache EXCEPT !.sessions =
        {r \in cache.sessions : r.key # key} \cup
        {[key |-> key, sessionId |-> id, endpoint |-> sseEndpoint,
          createdAt |-> t, expiresAt |-> t + SESSION_TTL]}]

\* A saveSessions that lets the error of a failed write escape, against
\* which the tolerance of write failures is tested.
SaveSessionsThrowing(f, cache, writeOk) ==
    [file |-> IF writeOk THEN [shape |-> "store", sessions |-> cache.sessions]
              ELSE f,
     threw |-> ~writeOk]

\* saveSessions(cache): writes the serialized cache; every error of the
\* write is swallowed. The serialized form keeps the four fields of each
\* record under its key (strings and finite integers).
SaveSessions(f, cache, writeOk) ==
    [file |-> IF writeOk THEN [shape |-> "store", sessions |-> cache.sessions]
              ELSE f,
     threw |-> FALSE]

\* A clearExpiredSessions that keeps a record until after its expiresAt,
\* against which the removal of expired records is tested.
AfterClearExpiredLate(f, t, writeOk) ==
    LET cache == LoadSessions(f)
    IN SaveSessions(f, [cache EXCEPT !.sessions =
                           {r \in cache.sessions : ~(r.expiresAt < t)}],
                    writeOk).file

\* The store file after clearExpiredSessions() at time t, for a store whose
\* sessions is an object: the entries with expiresAt <= now are deleted
\* from the loaded cache, which is saved.
AfterClearExpired(f, t, writeOk) ==
    LET cache == LoadSessions(f)
    IN SaveSessions(f, [cache EXCEPT !.sessions =
                           {r \in cache.sessions : ~(r.expiresAt <= t)}],
                    writeOk).file

\* The store file after clearAllSessions(): saveSessions({ sessions: {} }).
AfterClearAll(f, writeOk) == SaveSessions(f, EmptyStore, writeOk).file

\* ------------------------------------------------------------ JS values
\* A JSON/JavaScript value is [t |-> type, v |-> payload]; a string's payload
\* is its text (a sequence of atoms), an array's a sequence of values, an
\* object's a function from field names to values.
Undef == [t |-> "undefined", v |-> 0]
Null == [t |-> "null", v |-> 0]
Bool(b) == [t |-> "bool", v |-> b]
Num(n) == [t |-> "num", v |-> n]
Str(s) == [t |-> "str", v |-> s]
Arr(a) == [t |-> "arr", v |-> a]
Obj(o) == [t |-> "obj", v |-> o]

\* if (x): JavaScript truthiness.
Truthy(x) ==
    CASE x.t \in {"undefined", "null"} -> FALSE
      [] x.t = "bool" -> x.v
      [] x.t = "num" -> x.v # 0
      [] x.t = "str" -> x.v # <<>>
      [] OTHER -> TRUE

\* x.f for x neither null nor undefined.
Get(x, f) == IF x.t = "obj" /\ f \in DOMAIN x.v THEN x.v[f] ELSE Undef

\* x?.f
OptGet(x, f) == IF x.t \in {"undefined", "null"} THEN Undef ELSE Get(x, f)

\* x?.[0]
OptFirst(x) ==
    CASE x.t = "arr" /\ x.v # <<>> -> x.v[1]
      [] x.t = "str" /\ x.v # <<>> -> Str(<<x.v[1]>>)
      [] OTHER -> Undef

\* a || b
OrElse(a, b) == IF Truthy(a) THEN a ELSE b

\* ------------------------------------------------------------ text
Whitespace == {" ", "\n"}

RECURSIVE TrimStart(_)
TrimStart(s) ==
    IF s # <<>> /\ Head(s) \in Whitespace THEN TrimStart(Tail(s)) ELSE s

RECURSIVE TrimEnd(_)
TrimEnd(s) ==
    IF s # <<>> /\ s[Len(s)] \in Whitespace
    THEN TrimEnd(SubSeq(s, 1, Len(s) - 1)) ELSE s

\* s.trim()
Trim(s) == TrimEnd(TrimStart(s))

\* s.split('\n'): the segments between newlines, one more than the newlines.
RECURSIVE Split(_)
Split(s) ==
    IF \E i \in 1..Len(s) : s[i] = "\n"
    THEN LET i == CHOOSE i \in 1..Len(s) :
                     s[i] = "\n" /\ \A j \in 1..(i - 1) : s[j] # "\n"
         IN <<SubSeq(s, 1, i - 1)>> \o Split(SubSeq(s, i + 1, Len(s)))
    ELSE <<s>>

\* s.includes(w), for a text w
Includes(s, w) ==
    \E i \in 0..(Len(s) - Len(w)) : SubSeq(s, i + 1, i + Len(w)) = w

\* The atoms whose characters contain the word 'error', and the word 'MCP'.
ErrorAtoms ==
    {"error:{message:bad tool}", "error", "internal error",
     "error:{message:bad tool},result:{content:[{text:plain text}]}"}
McpAtoms == {"MCP tool call failed", "MCP stream ended without result",
             "MCP request timed out waiting for response", "MCP"}

\* e.message.includes('MCP') || e.message.includes('error')
MentionsMcpOrError(msg) ==
    \E i \in 1..Len(msg) : msg[i] \in ErrorAtoms \cup McpAtoms

\* a.join('\n') of texts
RECURSIVE JoinLines(_)
JoinLines(a) ==
    IF a = <<>> THEN <<>>
    ELSE IF Len(a) = 1 THEN a[1]
    ELSE a[1] \o <<"\n">> \o JoinLines(Tail(a))

\* String(x), as join and new Error(x) apply it to a value that is not null
\* or undefined.
ToText(x) ==
    CASE x.t = "str" -> x.v
      [] x.t = "num" -> <<"<number>">>
      [] x.t = "bool" -> IF x.v THEN <<"true">> ELSE <<"false">>
      [] x.t = "obj" -> <<"[object Object]">>
      [] x.t = "arr" -> <<"<array>">>
      [] x.t = "null" -> <<"null">>
      [] OTHER -> <<"undefined">>

\* ------------------------------------------------------------ JSON texts
\* The JSON documents of the model: each a text and the value it denotes.
\* A text is valid JSON iff, with surrounding whitespace removed, it is the
\* text of one of them.
InnerOkText == <<"{", "ok:true", "}">>
InnerOkValue == Obj([ok |-> Bool(TRUE)])

JsonDocs ==
    { [text |-> <<"{", "error:{message:bad tool}", "}">>,
       value |-> Obj([error |-> Obj([message |-> Str(<<"bad tool">>)])])],
      [text |-> <<"{", "result:{isError:true,content:[{text:tool failed}]}", "}">>,
       value |-> Obj([result |-> Obj([isError |-> Bool(TRUE),
                   content |-> Arr(<<Obj([text |-> Str(<<"tool failed">>)])>>)])])],
      [text |-> <<"{", "result:{content:[{text:{ok:true}}]}", "}">>,
       value |-> Obj([result |-> Obj([content |->
                   Arr(<<Obj([text |-> Str(InnerOkText)])>>)])])],
      [text |-> <<"{", "result:{content:[{text:plain text}]}", "}">>,
       value |-> Obj([result |-> Obj([content |->
                   Arr(<<Obj([text |-> Str(<<"plain text">>)])>>)])])],
      [text |-> <<"{", "result:{content:[]}", "}">>,
       value |-> Obj([result |-> Obj([content |-> Arr(<<>>)])])],
      [text |-> <<"{", "result:{ok:true}", "}">>,
       value |-> Obj([result |-> InnerOkValue])],
      [text |-> <<"{", "jsonrpc:2.0", "}">>,
       value |-> Obj([jsonrpc |-> Str(<<"2.0">>)])],
      [text |-> InnerOkText, value |-> InnerOkValue] }

\* More JSON documents, met only in the streams of several data: lines: a
\* content array holding null, a payload with an error and a content, and
\* the bare results that are falsy in JavaScript.
NullContentText == <<"{", "result:{content:[null]}", "}">>
ErrorAndContentText ==
    <<"{", "error:{message:bad tool},result:{content:[{text:plain text}]}", "}">>
ResultFalseText == <<"{", "result:false", "}">>
ResultZeroText == <<"{", "result:0", "}">>
ResultEmptyText == <<"{", "result:''", "}">>

StreamDocs ==
    { [text |-> NullContentText,
       value |-> Obj([result |-> Obj([content |-> Arr(<<Null>>)])])],
      [text |-> ErrorAndContentText,
       value |-> Obj([error |-> Obj([message |-> Str(<<"bad tool">>)]),
                      result |-> Obj([content |->
                          Arr(<<Obj([text |-> Str(<<"plain text">>)])>>)])])],
      [text |-> ResultFalseText, value |-> Obj([result |-> Bool(FALSE)])],
      [text |-> ResultZeroText, value |-> Obj([result |-> Num(0)])],
      [text |-> ResultEmptyText, value |-> Obj([result |-> Str(<<>>)])] }

AllDocs == JsonDocs \cup StreamDocs

\* JSON.parse(s): the value, or a SyntaxError. Whether the error's message
\* quotes the source text depends on the JavaScript engine (quotes).
JsonParse(s, quotes) ==
    LET t == Trim(s)
    IN IF \E d \in AllDocs : d.text = t
       THEN [ok |-> TRUE, value |-> (CHOOSE d \in AllDocs : d.text = t).value,
             msg |-> <<>>]
       ELSE [ok |-> FALSE, value |-> Undef,
             msg |-> IF quotes
                     THEN <<"Unexpected token, ">> \o t \o <<" is not valid JSON">>
                     ELSE <<"Unexpected token in JSON at position 0">>]

\* ------------------------------------------------------------ normalizer
TypeErrorMsg == <<"Cannot read properties of null">>

\* content.map((c) => c.text || c).join('\n') and the JSON-as-text step, or
\* the content itself when it is no array. Reading c.text of a null or
\* undefined element throws a TypeError.
TextContent(content) ==
    JoinLines([i \in 1..Len(content.v) |->
        ToText(OrElse(Get(content.v[i], "text"), content.v[i]))])

\* A variant of the test that does not trim the text first, against which
\* the JSON-as-text property is tested.
LooksLikeJsonUntrimmed(text) == text # <<>> /\ text[1] \in {"{", "["}

LooksLikeJson(text) == Trim(text) # <<>> /\ Trim(text)[1] \in {"{", "["}

\* A variant that turns a content value that is no array into text,
\* against which the unchanged-value property is tested.
NormalizeContentAsText(content, quotes) ==
    IF content.t # "arr" THEN [threw |-> FALSE, value |-> Str(ToText(content))]
    ELSE [threw |-> FALSE, value |-> Str(TextContent(content))]

NormalizeContent(content, quotes) ==
    IF content.t # "arr" THEN [threw |-> FALSE, value |-> content]
    ELSE IF \E i \in 1..Len(content.v) : content.v[i].t \in {"null", "undefined"}
    THEN [threw |-> TRUE, value |-> Undef]
    ELSE LET textContent == TextContent(content)
             parsed == JsonParse(textContent, quotes)
         IN [threw |-> FALSE,
             value |-> IF LooksLikeJson(textContent) /\ parsed.ok
                       THEN parsed.value
                       ELSE Str(textContent)]

\* ------------------------------------------------------------ outcomes
\* What one payload does to a call: settle it or let it read on.
Resolve(x) == [kind |-> "resolve", value |-> x, message |-> <<>>]
Reject(msg) == [kind |-> "reject", value |-> Undef, message |-> msg]
Continue == [kind |-> "continue", value |-> Undef, message |-> <<>>]

\* ------------------------------------------------------------ session-based invoker
\* The catch around the handling of one data: line: an error whose message
\* mentions 'MCP' or 'error' rejects the call, any other is dropped.
Caught(msg) == IF MentionsMcpOrError(msg) THEN Reject(msg) ELSE Continue

\* The body of `if (data) { try { ... } catch { ... } }` for one data: text.
HandleData(data, quotes) ==
    LET parsed == JsonParse(data, quotes)
        json == parsed.value
        result == Get(json, "result")
        error == Get(json, "error")
        content == OptGet(result, "content")
    IN IF ~parsed.ok THEN Caught(parsed.msg)
       ELSE IF json.t = "null" THEN Caught(TypeErrorMsg)
       ELSE IF Truthy(OptGet(result, "isError")) \/ Truthy(error)
       THEN Reject(ToText(
               OrElse(OptGet(OptFirst(content), "text"),
                      OrElse(OptGet(error, "message"),
                             Str(<<"MCP tool call failed">>)))))
       ELSE IF Truthy(content)
       THEN LET n == NormalizeContent(content, quotes)
            IN IF n.threw THEN Caught(TypeErrorMsg) ELSE Resolve(n.value)
       ELSE IF Truthy(result) THEN Resolve(result)
       ELSE Continue

\* One line of the stream: only a line starting with data: whose trimmed
\* rest is not empty is handled.
HandleLine(line, quotes) ==
    IF line # <<>> /\ Head(line) = "data:" /\ Trim(Tail(line)) # <<>>
    THEN HandleData(Trim(Tail(line)), quotes)
    ELSE Continue

\* for (const line of lines) { ... }: the first line that settles the call
\* ends the loop (and processStream).
RECURSIVE HandleLines(_, _)
HandleLines(lines, quotes) ==
    IF lines = <<>> THEN Continue
    ELSE LET r == HandleLine(Head(lines), quotes)
         IN IF r.kind # "continue" THEN r ELSE HandleLines(Tail(lines), quotes)

\* A variant in which a later resolve or reject replaces the outcome,
\* against which the settle-once property is tested.
SettleAgain(st, r) ==
    IF r.kind = "continue" THEN st
    ELSE [st EXCEPT !.outcome = IF r.kind = "resolve" THEN "resolved"
                                ELSE "rejected",
                    !.value = r.value, !.message = r.message]

\* A promise settles once: resolve and reject of a settled promise do nothing.
Settle(st, r) ==
    IF st.outcome # "pending" \/ r.kind = "continue" THEN st
    ELSE [st EXCEPT !.outcome = IF r.kind = "resolve" THEN "resolved"
                                ELSE "rejected",
                    !.value = r.value, !.message = r.message]

\* The reader of a response body that arrives in `chunks`; `closes` says
\* whether the server ends the stream after them.
SseStart(chunks, closes) ==
    [pc |-> "reading", chunks |-> chunks, closes |-> closes, buffer |-> <<>>,
     hasResult |-> FALSE, timer |-> "armed", cancelled |-> FALSE,
     readError |-> FALSE, outcome |-> "pending", value |-> Undef, message |-> <<>>]

SseIdle == [SseStart(<<>>, TRUE) EXCEPT !.pc = "idle", !.timer = "none"]

\* reader.read() returns done (the stream ended or the reader was
\* cancelled): leave the loop, clear the timeout, reject unless hasResult.
SseEnd(st) ==
    Settle([st EXCEPT !.pc = "finished",
                      !.timer = IF @ = "armed" THEN "cleared" ELSE @],
           IF st.hasResult THEN Continue
           ELSE Reject(<<"MCP stream ended without result">>))

\* A variant that splits each chunk on its own and drops the unfinished
\* line at its end, against which the independence of the chunking is
\* tested.
SseChunkNoCarry(st, quotes) ==
    LET segs == Split(Head(st.chunks))
        lines == SubSeq(segs, 1, Len(segs) - 1)
        r == HandleLines(lines, quotes)
        st1 == [st EXCEPT !.chunks = Tail(st.chunks), !.buffer = <<>>]
    IN IF r.kind = "continue" THEN st1
       ELSE Settle([st1 EXCEPT !.pc = "finished", !.hasResult = TRUE,
                               !.timer = IF @ = "armed" THEN "cleared" ELSE @,
                               !.cancelled = TRUE], r)

\* reader.read() returns a chunk: one iteration of the while loop.
SseChunk(st, quotes) ==
    LET segs == Split(st.buffer \o Head(st.chunks))
        lines == SubSeq(segs, 1, Len(segs) - 1)
        r == HandleLines(lines, quotes)
        st1 == [st EXCEPT !.chunks = Tail(st.chunks),
                          !.buffer = segs[Len(segs)]]
    IN IF r.kind = "continue" THEN st1
       ELSE Settle([st1 EXCEPT !.pc = "finished", !.hasResult = TRUE,
                               !.timer = IF @ = "armed" THEN "cleared" ELSE @,
                               !.cancelled = TRUE], r)

\* A variant of the timer callback that neither cancels nor rejects,
\* against which the timeout property is tested.
SseTimeoutSilent(st) == [st EXCEPT !.timer = "fired"]

\* The 30 s timer fires.
SseTimeout(st) ==
    IF st.hasResult THEN [st EXCEPT !.timer = "fired"]
    ELSE Settle([st EXCEPT !.timer = "fired", !.cancelled = TRUE],
                Reject(<<"MCP request timed out waiting for response">>))

\* reader.read() rejects: the outer catch clears the timeout, cancels the
\* reader and rejects with the error.
SseReadError(st) ==
    Settle([st EXCEPT !.pc = "finished", !.readError = TRUE,
                      !.timer = IF @ = "armed" THEN "cleared" ELSE @,
                      !.cancelled = TRUE],
           Reject(<<"read failed">>))

\* Whether the pending read can return now, and what it returns.
SseCanRead(st) ==
    st.pc = "reading" /\ (st.cancelled \/ st.chunks # <<>> \/ st.closes)

SseRead(st, quotes) ==
    IF st.cancelled \/ st.chunks = <<>> THEN SseEnd(st) ELSE SseChunk(st, quotes)

\* processStream run until it returns, with no timeout and no read error.
RECURSIVE SseDrain(_, _)
SseDrain(st, quotes) ==
    IF SseCanRead(st) THEN SseDrain(SseRead(st, quotes), quotes) ELSE st

\* ------------------------------------------------------------ curl variant
\* buffer.substring(0, 200). An atom stands for at most AtomChars
\* characters; the cut is taken at an atom boundary.
AtomChars == 40

Substring200(s) ==
    SubSeq(s, 1, IF Len(s) * AtomChars <= 200 THEN Len(s) ELSE 200 \div AtomChars)

\* The first line of the buffer that starts with data:, if any.
RECURSIVE FirstDataLine(_)
FirstDataLine(lines) ==
    IF lines = <<>> THEN [found |-> FALSE, data |-> <<>>]
    ELSE IF Head(lines) # <<>> /\ Head(Head(lines)) = "data:"
    THEN [found |-> TRUE, data |-> Trim(Tail(Head(lines)))]
    ELSE FirstDataLine(Tail(lines))

\* The try/catch of the close handler: every error thrown while parsing
\* rejects the call with 'Failed to parse MCP response'.
ParseFailure(buffer, msg) ==
    Reject(<<"Failed to parse MCP response: ">> \o msg \o <<". Response: ">>
           \o Substring200(buffer))

CurlParse(buffer, quotes) ==
    LET first == FirstDataLine(Split(buffer))
        jsonData == IF Includes(buffer, <<"data:">>) /\ first.found
                    THEN first.data ELSE buffer
        parsed == JsonParse(jsonData, quotes)
        json == parsed.value
        result == Get(json, "result")
        error == Get(json, "error")
        content == OptGet(result, "content")
    IN IF ~parsed.ok THEN ParseFailure(buffer, parsed.msg)
       ELSE IF json.t = "null" THEN ParseFailure(buffer, TypeErrorMsg)
       ELSE IF Truthy(error)
       THEN Reject(ToText(OrElse(Get(error, "message"),
                                 Str(<<"MCP tool call failed">>))))
       ELSE IF Truthy(OptGet(result, "isError"))
       THEN Reject(ToText(OrElse(OptGet(OptFirst(content), "text"),
                                 Str(<<"MCP tool call failed">>))))
       ELSE IF Truthy(content)
       THEN LET n == NormalizeContent(content, quotes)
            IN IF n.threw THEN ParseFailure(buffer, TypeErrorMsg)
               ELSE Resolve(n.value)
       ELSE IF Truthy(result) THEN Resolve(result)
       ELSE Reject(<<"No result in MCP response">>)

\* The code the close handler is given when a signal ended the subprocess
\* (null in the program).
SignalExit == -1

\* The subprocess: its standard output arrives in `stdout` chunks and it
\* exits with `exit`.
CurlStart(chunks, exit) ==
    [pc |-> "running", stdout |-> chunks, exit |-> exit, buffer |-> <<>>,
     settled |-> FALSE, timer |-> "armed", killed |-> FALSE,
     spawnError |-> FALSE, outcome |-> "pending", value |-> Undef,
     message |-> <<>>]

CurlIdle == [CurlStart(<<>>, 0) EXCEPT !.pc = "idle", !.timer = "none"]

\* curl.stdout.on('data')
CurlData(st) ==
    IF st.settled THEN [st EXCEPT !.stdout = Tail(@)]
    ELSE [st EXCEPT !.stdout = Tail(@), !.buffer = @ \o Head(st.stdout)]

\* curl.on('error')
CurlError(st) ==
    IF st.settled THEN [st EXCEPT !.pc = "errored", !.spawnError = TRUE]
    ELSE Settle([st EXCEPT !.pc = "errored", !.spawnError = TRUE,
                           !.settled = TRUE, !.timer = "cleared"],
                Reject(<<"curl spawn error">>))

\* curl.on('close')
CurlClose(st, quotes) ==
    IF st.settled THEN [st EXCEPT !.pc = "closed"]
    ELSE Settle([st EXCEPT !.pc = "closed", !.settled = TRUE,
                           !.timer = "cleared"],
                IF st.exit # 0 THEN Reject(<<"curl exited with code">>)
                ELSE CurlParse(st.buffer, quotes))

\* A variant of the timer callback that fails the call and leaves the
\* subprocess running, against which the failure handling is tested.
CurlTimeoutNoKill(st) ==
    IF st.settled THEN [st EXCEPT !.timer = "fired"]
    ELSE Settle([st EXCEPT !.timer = "fired", !.settled = TRUE],
                Reject(<<"Timeout waiting for MCP response">>))

\* The 30 s timer fires.
CurlTimeout(st) ==
    IF st.settled THEN [st EXCEPT !.timer = "fired"]
    ELSE Settle([st EXCEPT !.timer = "fired", !.settled = TRUE,
                           !.killed = TRUE],
                Reject(<<"Timeout waiting for MCP response">>))

\* ------------------------------------------------------------ createSession
\* The text of a session-open response is a sequence of atoms; every atom
\* is one character except the ones listed here. The literal 'sessionId='
\* is the two atoms "session", "Id=", so that a chunk can end inside it.
\* "pad" is PadChars characters of event-stream text that holds none of
\* the characters & = space newline.
PadChars == 500

AtomLen(a) ==
    CASE a = "session" -> 7
      [] a = "Id=" -> 3
      [] a = "event:endpoint" -> 14
      [] a = "data:/message?" -> 14
      [] a = "pad" -> PadChars
      [] OTHER -> 1

\* s.length
RECURSIVE TextLen(_)
TextLen(s) == IF s = <<>> THEN 0 ELSE AtomLen(Head(s)) + TextLen(Tail(s))

\* The characters that [^&\s\n] excludes.
IdTerminators == {"&", " ", "\n"}

\* The longest prefix of s made of characters of [^&\s\n].
RECURSIVE IdRun(_)
IdRun(s) ==
    IF s = <<>> \/ Head(s) \in IdTerminators THEN <<>>
    ELSE <<Head(s)>> \o IdRun(Tail(s))

\* Where /sessionId=([^&\s\n]+)/ can match at position i of s.
MatchesAt(s, i) ==
    /\ i + 2 <= Len(s)
    /\ s[i] = "session" /\ s[i + 1] = "Id="
    /\ s[i + 2] \notin IdTerminators

\* buffer.match(/sessionId=([^&\s\n]+)/): the leftmost match and its group 1.
MatchSessionId(s) ==
    IF \E i \in 1..Len(s) : MatchesAt(s, i)
    THEN LET i == CHOOSE i \in 1..Len(s) :
                     MatchesAt(s, i) /\ \A j \in 1..(i - 1) : ~MatchesAt(s, j)
         IN [found |-> TRUE, id |-> IdRun(SubSeq(s, i + 2, Len(s)))]
    ELSE [found |-> FALSE, id |-> <<>>]

\* if (buffer.length > 1000)
MAX_BUFFER == 1000
\* setTimeout(() => reader.cancel(), 5000)
ACQ_TIMEOUT == 5000

ExtractFailed == <<"Failed to extract session ID from MCP SSE response">>

\* createSession from its fetch on: the response body arrives in `chunks`,
\* `closes` says whether the server ends the stream after them.
AcqStart(chunks, closes) ==
    [pc |-> "fetching", chunks |-> chunks, closes |-> closes, buffer |-> <<>>,
     timer |-> "none", armedAt |-> 0, cancelled |-> FALSE, released |-> FALSE,
     outcome |-> "pending", id |-> <<>>, message |-> <<>>]

AcqIdle == [AcqStart(<<>>, TRUE) EXCEPT !.pc = "idle"]

AcqThrow(st, msg) ==
    [st EXCEPT !.pc = "done", !.outcome = "threw", !.message = msg]

\* await fetch(...) settles at time t: a network error, a non-success
\* status and a response without body throw; otherwise the reader is taken
\* and the 5 s timer armed.
AcqResponse(st, kind, t) ==
    CASE kind = "rejected" -> AcqThrow(st, <<"fetch failed">>)
      [] kind = "notOk" -> AcqThrow(st, <<"Failed to connect to MCP SSE endpoint">>)
      [] kind = "noBody" -> AcqThrow(st, <<"No response body from SSE endpoint">>)
      [] OTHER -> [st EXCEPT !.pc = "reading", !.timer = "armed", !.armedAt = t]

\* clearTimeout(timeout)
AcqClear(timer) == IF timer = "armed" THEN "cleared" ELSE timer

\* reader.read() returns a chunk: one iteration of the while loop.
AcqChunk(st) ==
    LET buffer == st.buffer \o Head(st.chunks)
        match == MatchSessionId(buffer)
        st1 == [st EXCEPT !.chunks = Tail(st.chunks), !.buffer = buffer]
    IN IF match.found
       THEN [st1 EXCEPT !.pc = "done", !.timer = AcqClear(@),
                        !.cancelled = TRUE, !.released = TRUE,
                        !.outcome = "returned", !.id = match.id]
       ELSE IF TextLen(buffer) > MAX_BUFFER
       THEN [AcqThrow(st1, ExtractFailed)
                EXCEPT !.timer = AcqClear(@), !.cancelled = TRUE,
                       !.released = TRUE]
       ELSE st1

\* reader.read() returns done (the stream ended, or the reader was
\* cancelled): break, clearTimeout, release the lock, throw.
AcqEnd(st) ==
    [AcqThrow(st, ExtractFailed)
        EXCEPT !.timer = AcqClear(@), !.released = TRUE]

\* reader.read() rejects: the error leaves through finally; the timer is
\* not cleared.
AcqReadError(st) ==
    [AcqThrow(st, <<"read failed">>) EXCEPT !.released = TRUE]

\* A variant of the timer callback that does not cancel the reader,
\* against which the bound on the read is tested.
AcqTimeoutNoCancel(st) == [st EXCEPT !.timer = "fired"]

\* The 5 s timer fires: reader.cancel().
AcqTimeout(st) == [st EXCEPT !.timer = "fired", !.cancelled = TRUE]

AcqCanRead(st) ==
    st.pc = "reading" /\ (st.cancelled \/ st.chunks # <<>> \/ st.closes)

AcqRead(st) ==
    IF st.cancelled \/ st.chunks = <<>> THEN AcqEnd(st) ELSE AcqChunk(st)

\* createSession on a response that arrived at time 0, run until it
\* returns or throws, with no timeout and no read error.
RECURSIVE AcqDrain(_)
AcqDrain(st) == IF AcqCanRead(st) THEN AcqDrain(AcqRead(st)) ELSE st

\* ------------------------------------------------------------ request URLs
\* A URL is a text whose atoms are single characters, except: a scheme
\* ("http://", "https://"), a path segment with its leading slash ("/p",
\* "/sse"), and the literal parts the code writes.
PathAtoms == {"/", "/p", "/sse"}
Schemes == {"http://", "https://"}

\* s.includes('?')
HasQuery(s) == \E i \in 1..Len(s) : s[i] = "?"

\* encodeURIComponent, which the code does not apply to the credential;
\* against it the raw-credential property is tested.
PercentEncode(c) ==
    CASE c = "+" -> "%2B" [] c = "/" -> "%2F" [] c = "?" -> "%3F"
      [] c = "&" -> "%26" [] c = "=" -> "%3D" [] OTHER -> c

EncodeURIComponent(s) == [i \in 1..Len(s) |-> PercentEncode(s[i])]

GetEndpointWithAuthEncoded(endpoint, apiKey) ==
    endpoint \o <<IF HasQuery(endpoint) THEN "&" ELSE "?">>
        \o <<"Authorization=">> \o EncodeURIComponent(apiKey)

\* getEndpointWithAuth(endpoint, apiKey) of the curl variant
GetEndpointWithAuth(endpoint, apiKey) ==
    endpoint \o <<IF HasQuery(endpoint) THEN "&" ELSE "?">>
        \o <<"Authorization=">> \o apiKey

\* createSession: `${sseEndpoint}?Authorization=${apiKey}`
SessionOpenUrl(sseEndpoint, apiKey) ==
    sseEndpoint \o <<"?">> \o <<"Authorization=">> \o apiKey

\* s.replace(/\/sse$/, '')
StripSseSuffix(s) ==
    IF s # <<>> /\ s[Len(s)] = "/sse" THEN SubSeq(s, 1, Len(s) - 1) ELSE s

\* The longest prefix of s made of characters of [^\/].
RECURSIVE HostRun(_)
HostRun(s) ==
    IF s = <<>> \/ Head(s) \in PathAtoms THEN <<>>
    ELSE <<Head(s)>> \o HostRun(Tail(s))

\* s.replace(/^https?:\/\/[^\/]+/, '')
StripOrigin(s) ==
    IF s # <<>> /\ Head(s) \in Schemes /\ HostRun(Tail(s)) # <<>>
    THEN SubSeq(s, 2 + Len(HostRun(Tail(s))), Len(s))
    ELSE s

\* callRemoteMcpTool: basePath and messageUrl
MessageUrl(sseEndpoint, sessionId, apiKey) ==
    LET basePath == StripOrigin(StripSseSuffix(sseEndpoint))
    IN <<"https://", "api.z.ai">> \o basePath \o <<"/message", "?", "sessionId=">>
           \o sessionId \o <<"&", "Authorization=">> \o apiKey

\* The endpoints and credentials the URL builders are given: with and
\* without a query string, with and without the /sse suffix and the origin;
\* credentials of one or two characters, among them + / ? & =.
UrlEndpoints ==
    { <<"https://", "h", "/p", "/sse">>,
      <<"https://", "h", "/p", "/sse", "?", "x", "=", "1">>,
      <<"http://", "h", "/sse">>,
      <<"https://", "h", "/p">>,
      <<"/p", "/sse">> }

CredentialChars == {"a", "+", "/", "?", "&", "="}

UrlCredentials ==
    {<<c>> : c \in CredentialChars}
    \cup {<<c, d>> : c \in CredentialChars, d \in CredentialChars}

NoUrl == <<>>

UrlStart(endpoint, apiKey) ==
    [pc |-> "building", endpoint |-> endpoint, apiKey |-> apiKey,
     sessionOpen |-> NoUrl, message |-> NoUrl, curl |-> NoUrl]

UrlIdle == [UrlStart(<<>>, <<>>) EXCEPT !.pc = "idle"]

\* ------------------------------------------------------------ response bodies
\* The vendor's SSE framing, the framing of the unit tests, and no framing.
SseFrame(t) == <<"id:1", "\n", "event:message", "\n", "data:">> \o t \o <<"\n", "\n">>
SseFrameSp(t) == <<"data:", " ">> \o t \o <<"\n", "\n">>
Bare(t) == t

PayloadTexts == {d.text : d \in JsonDocs} \ {InnerOkText}

\* Streams that carry no payload: a comment line, an empty data: line.
KeepAlive == <<": ping", "\n", "\n">>
EmptyData == <<"data:", "\n", "\n">>

Bodies ==
    {SseFrame(t) : t \in PayloadTexts} \cup {SseFrameSp(t) : t \in PayloadTexts}
    \cup {Bare(t) : t \in PayloadTexts} \cup {KeepAlive, EmptyData}

\* How the message POST of a tool call of the store model is answered.
PostResponses ==
    {[kind |-> k, body |-> <<>>] : k \in {"rejected", "notOk", "noBody"}} \cup
    {[kind |-> "body", body |-> b] :
        b \in {SseFrame(<<"{", "error:{message:bad tool}", "}">>),
               SseFrame(<<"{", "result:{ok:true}", "}">>)}}

\* The ways a body arrives in at most k chunks, none of them empty.
RECURSIVE Chunkings(_, _)
Chunkings(s, k) ==
    IF s = <<>> THEN {<<>>}
    ELSE {<<s>>} \cup
         (IF k <= 1 THEN {}
          ELSE UNION { { <<SubSeq(s, 1, i)>> \o rest :
                           rest \in Chunkings(SubSeq(s, i + 1, Len(s)), k - 1) } :
                       i \in 1..(Len(s) - 1) })

\* ------------------------------------------------------------ streams of several lines
\* A data: line of a response stream, and the same line with the stream
\* ending before its newline.
DataLine(t) == <<"data:">> \o t \o <<"\n">>
OpenLine(t) == <<"data:">> \o t

ResultOkText == <<"{", "result:{ok:true}", "}">>
ErrorText == <<"{", "error:{message:bad tool}", "}">>
IsErrorText == <<"{", "result:{isError:true,content:[{text:tool failed}]}", "}">>
PlainContentText == <<"{", "result:{content:[{text:plain text}]}", "}">>
NotificationText == <<"{", "jsonrpc:2.0", "}">>

\* The data: texts that carry an error, a result.content or a result, and
\* those that carry none: a notification, and text that is not JSON.
TerminalTexts ==
    {ResultOkText, ErrorText, IsErrorText, PlainContentText,
     NullContentText, ErrorAndContentText,
     ResultFalseText, ResultZeroText, ResultEmptyText}
NonTerminalTexts == {NotificationText, <<"not json">>, <<"internal error">>, <<"MCP">>}

\* The streams: two data: lines, the second a result or an error; one line
\* or the second of two without its newline.
StreamBodies ==
    {DataLine(a) \o DataLine(b) :
        a \in TerminalTexts \cup NonTerminalTexts, b \in {ResultOkText, ErrorText}}
    \cup {OpenLine(b) : b \in {ResultOkText, ErrorText}}
    \cup {DataLine(NotificationText) \o OpenLine(b) : b \in {ResultOkText, ErrorText}}

\* ------------------------------------------------------------ content values
\* The elements a result.content array is given: null, a number, a string,
\* objects with a text field (plain text, JSON text, JSON text after
\* whitespace, text that starts like JSON and does not parse, an empty
\* text) and an object without one.
BrokenJsonText == <<"{", "ok:">>

ContentElems ==
    { Null, Num(5), Str(<<"plain text">>),
      Obj([text |-> Str(<<"plain text">>)]),
      Obj([text |-> Str(InnerOkText)]),
      Obj([text |-> Str(<<" ">> \o InnerOkText)]),
      Obj([text |-> Str(BrokenJsonText)]),
      Obj([text |-> Str(<<>>)]),
      Obj([type |-> Str(<<"image">>)]) }

\* The length of the arrays is bounded by MaxContent.
MaxContent == 2

RECURSIVE ContentSeqs(_)
ContentSeqs(n) ==
    IF n = 0 THEN {<<>>}
    ELSE ContentSeqs(n - 1) \cup
         {Append(a, e) : a \in {b \in ContentSeqs(n - 1) : Len(b) = n - 1},
                         e \in ContentElems}

\* The values result.content is given that are no arrays, truthy and falsy.
ScalarContents ==
    { Str(<<"plain text">>), Str(InnerOkText), InnerOkValue, Num(5),
      Bool(TRUE), Num(0), Str(<<>>), Bool(FALSE), Null }

Contents == {Arr(a) : a \in ContentSeqs(MaxContent)} \cup ScalarContents

\* `if (json.result?.content) { ... normalize ... }` for one content value:
\* a falsy content is not normalized (the call goes on to `if (json.result)`).
NormStart(content) ==
    [pc |-> "start", content |-> content, threw |-> FALSE, value |-> Undef]

NormIdle == [NormStart(Undef) EXCEPT !.pc = "idle"]

NormApply(st, q) ==
    IF ~Truthy(st.content) THEN [st EXCEPT !.pc = "skipped"]
    ELSE LET n == NormalizeContent(st.content, q)
         IN [st EXCEPT !.pc = "normalized", !.threw = n.threw,
                       !.value = n.value]

\* ------------------------------------------------------------ withRetry
\* Math.pow(2, attempt)
RECURSIVE Pow2(_)
Pow2(n) == IF n = 0 THEN 1 ELSE 2 * Pow2(n - 1)

MinOf(a, b) == IF a <= b THEN a ELSE b

\* A delay without the cap, against which the backoff schedule is tested.
DelayUncapped(attempt) == 100 * Pow2(attempt)

\* const delay = Math.min(100 * Math.pow(2, attempt), 2000)
Delay(attempt) == MinOf(100 * Pow2(attempt), 2000)

\* A loop test that lets one more attempt through, against which the bound
\* on the invocations is tested.
LoopContinuesOnceMore(attempt, retryCount) == attempt <= retryCount + 1

\* for (...; attempt <= retryCount; ...)
LoopContinues(attempt, retryCount) == attempt <= retryCount

\* The results and errors fn settles with.
FnValues == {"v1", "v2"}
FnErrors == {"e1", "e2"}

\* withRetry(fn, retryCount) entered: the first loop test and, when it
\* passes, the first invocation of fn. log holds what the invocations of
\* fn settled with, waits the delays inserted, invokedAt and settledAt the
\* times of the invocations and of their settling.
RetryStart(retryCount, t) ==
    LET r == [pc |-> "calling", retryCount |-> retryCount, attempt |-> 0,
              inFlight |-> 1, invokedAt |-> <<t>>, settledAt |-> <<>>,
              log |-> <<>>, waits |-> <<>>, wakeAt |-> 0,
              lastError |-> "null", outcome |-> "pending", value |-> "none"]
    IN IF LoopContinues(0, retryCount) THEN r
       ELSE [r EXCEPT !.pc = "done", !.inFlight = 0, !.invokedAt = <<>>,
                      !.outcome = "threw", !.value = r.lastError]

RetryIdle == [RetryStart(0, 0) EXCEPT !.pc = "idle", !.inFlight = 0,
                                      !.invokedAt = <<>>]

\* `return await fn()` with fn fulfilled: withRetry returns the value.
RetryFnOk(r, v, t) ==
    [r EXCEPT !.pc = "done", !.inFlight = @ - 1, !.log = Append(@, v),
              !.settledAt = Append(@, t),
              !.outcome = "returned", !.value = v]

\* attempt++ and the loop test: the next invocation of fn, or the throw of
\* lastError after the loop.
RetryLoop(r, t) ==
    IF LoopContinues(r.attempt + 1, r.retryCount)
    THEN [r EXCEPT !.pc = "calling", !.attempt = @ + 1, !.inFlight = @ + 1,
                   !.invokedAt = Append(@, t)]
    ELSE [r EXCEPT !.pc = "done", !.attempt = @ + 1,
                   !.outcome = "threw", !.value = r.lastError]

\* fn rejected: the catch block, up to the await of the delay or, without
\* a delay, on to the next turn of the loop.
RetryFnFails(r, e, t) ==
    LET r1 == [r EXCEPT !.inFlight = @ - 1, !.log = Append(@, e),
                        !.settledAt = Append(@, t), !.lastError = e]
    IN IF r.attempt < r.retryCount
       THEN [r1 EXCEPT !.pc = "waiting", !.waits = Append(@, Delay(r.attempt)),
                       !.wakeAt = t + Delay(r.attempt)]
       ELSE RetryLoop(r1, t)

\* ------------------------------------------------------------ HTTP status
\* The HTTP responses to the message POST: the status code and whether it
\* is a success status (response.ok).
Statuses ==
    { [code |-> "200", ok |-> TRUE], [code |-> "401", ok |-> FALSE],
      [code |-> "500", ok |-> FALSE] }

\* A message POST sent by one of the transports, and the response to it.
PostStart(transport, status, b) ==
    [pc |-> "sent", transport |-> transport, status |-> status, body |-> b,
     outcome |-> "pending", value |-> Undef, message |-> <<>>]

PostIdle ==
    [PostStart("none", [code |-> "200", ok |-> TRUE], <<>>) EXCEPT !.pc = "idle"]

PostSettled(st, r) ==
    [st EXCEPT !.pc = "done", !.outcome = r.outcome, !.value = r.value,
               !.message = r.message]

\* callRemoteMcpTool from the response to its POST on: a non-success
\* status throws with the status and the response text; otherwise the
\* body is read by processStream.
SessionPostAnswer(st, quotes) ==
    IF ~st.status.ok
    THEN PostSettled(st, [outcome |-> "rejected", value |-> Undef,
            message |-> <<"MCP request failed: ", st.status.code, " ">>
                        \o st.body])
    ELSE PostSettled(st, SseDrain(SseStart(<<st.body>>, TRUE), quotes))

\* The curl variant: curl is run with -s and without --fail, so it writes
\* the response body to its output and exits with code 0 whatever the HTTP
\* status; the close handler parses the output.
CurlPostAnswer(st, quotes) ==
    PostSettled(st, CurlClose(CurlData(CurlStart(<<st.body>>, 0)), quotes))

\* ------------------------------------------------------------ state
VARIABLES
    file,         \* content of the session store file
    now,          \* Date.now()
    ticks,        \* clock advances so far
    started,      \* calls started so far
    call,         \* per caller: the position and locals of its call
    maintError,   \* error thrown by the last maintenance operation
    body,         \* the response body of the tool call under study
    quotes,       \* whether the engine's SyntaxError messages quote the text
    sse,          \* the session-based invoker reading that response
    curl,         \* the curl variant receiving that response
    acq,          \* createSession reading a session-open response
    urls,         \* the request URLs built for an endpoint and a credential
    norm,         \* the normalization of one content value
    retry,        \* one withRetry call
    reqs,         \* the tools/call requests built so far
    post          \* one message POST and the HTTP response to it

storeVars == <<file, now, ticks, started, call, maintError>>
streamVars == <<body, quotes, sse, curl>>
moreVars == <<retry, reqs, post>>
auxVars == <<acq, urls, norm, retry, reqs, post>>
vars == <<file, now, ticks, started, call, maintError,
          body, quotes, sse, curl, acq, urls, norm, retry, reqs, post>>

\* A call's locals. serial numbers the calls in the order they start;
\* settledAt is the number of calls that had started when the call's
\* getSession returned or threw.
IdleCall ==
    [pc |-> "idle", op |-> "none", serial |-> 0, settledAt |-> 0,
     endpoint |-> <<>>,
     apiKey |-> <<>>, cache |-> EmptyStore, nowRead |-> 0, cached |-> NoRecord,
     sessionId |-> NoId, gets |-> 0, posts |-> 0, saveFailed |-> FALSE,
     outcome |-> "none", error |-> "none"]

\* The store file as an earlier run of the program left it at time 0:
\* getSession(e, c) acquired an id and saved its record.
EarlierStore(e, c) ==
    PutRecord(EmptyStore, CacheKey(e, c),
              [n |-> 0, endpoint |-> e, apiKey |-> c], e, 0)

StoreInit ==
    /\ file \in {[shape |-> s, sessions |-> {}] : s \in FileShapes}
                \cup {EarlierStore(ec[1], ec[2]) : ec \in Pairs}
    /\ now = 0
    /\ ticks = 0
    /\ started = 0
    /\ call = [p \in Procs |-> IdleCall]
    /\ maintError = "none"

\* No tool-call response is under study.
StreamIdle ==
    /\ body = <<>>
    /\ quotes = TRUE
    /\ sse = SseIdle
    /\ curl = CurlIdle

\* No withRetry call and no request under study.
MoreIdle ==
    /\ retry = RetryIdle
    /\ reqs = <<>>
    /\ post = PostIdle

AuxIdle ==
    /\ acq = AcqIdle
    /\ urls = UrlIdle
    /\ norm = NormIdle
    /\ MoreIdle

Init == StoreInit /\ StreamIdle /\ AuxIdle

\* Where a call goes once getSession has returned id: a bare getSession call
\* is resolved; callRemoteMcpTool goes on to the message POST.
AfterSession(c, id) ==
    IF c.op = "getSession"
    THEN [c EXCEPT !.pc = "done", !.sessionId = id, !.outcome = "resolved",
                   !.cache = EmptyStore, !.settledAt = started]
    ELSE [c EXCEPT !.pc = "haveSession", !.sessionId = id,
                   !.cache = EmptyStore, !.settledAt = started]

\* A caller whose previous call has settled starts a call. getSession up to
\* its first await: load the store, read the clock, look
\* the key up; on a hit return the cached id, on a miss issue the
\* session-open GET (createSession's fetch).
GetSessionEnter(p, op, e, c) ==
    /\ call[p].pc \in {"idle", "done"}
    /\ started < MaxCalls
    /\ started' = started + 1
    /\ LET cache == LoadSessions(file)
           key == CacheKey(e, c)
           c0 == [IdleCall EXCEPT !.op = op, !.serial = started + 1, !.endpoint = e, !.apiKey = c,
                                  !.cache = cache, !.nowRead = now]
       IN IF ~HasSessions(cache)
          THEN /\ call' = [call EXCEPT ![p] =
                     [c0 EXCEPT !.pc = "done", !.outcome = "rejected",
                                !.error = "TypeError", !.cache = EmptyStore,
                                !.settledAt = started + 1]]
          ELSE LET cached == Lookup(cache, key)
               IN IF IsValid(cached, now)
                  THEN call' = [call EXCEPT ![p] =
                          [AfterSession([c0 EXCEPT !.cached = cached],
                                        cached.sessionId)
                              EXCEPT !.settledAt = started + 1]]
                  ELSE call' = [call EXCEPT ![p] =
                          [c0 EXCEPT !.cached = cached,
                                     !.pc = "createSession", !.gets = 1]]
    /\ UNCHANGED <<file, now, ticks, maintError>>
    /\ UNCHANGED streamVars
    /\ UNCHANGED auxVars

\* createSession returns an id: getSession puts the record into the cache
\* object it loaded on entry, saves it and returns the id.
CreateSessionOk(p, writeOk) ==
    /\ call[p].pc = "createSession"
    /\ LET c == call[p]
           id == [n |-> c.serial, endpoint |-> c.endpoint, apiKey |-> c.apiKey]
           key == CacheKey(c.endpoint, c.apiKey)
           cache == PutRecord(c.cache, key, id, c.endpoint, c.nowRead)
           saved == SaveSessions(file, cache, writeOk)
       IN /\ file' = saved.file
          /\ call' = [call EXCEPT ![p] =
                IF saved.threw
                THEN [c EXCEPT !.pc = "done", !.cache = EmptyStore,
                               !.saveFailed = TRUE, !.settledAt = started,
                               !.outcome = "rejected", !.error = "WriteError"]
                ELSE AfterSession([c EXCEPT !.saveFailed = ~writeOk], id)]
    /\ UNCHANGED <<now, ticks, started, maintError>>
    /\ UNCHANGED streamVars
    /\ UNCHANGED auxVars

\* A variant in which a failed acquisition still saves a record for the
\* key, against which the unchanged-store property is tested.
CreateSessionFailStoring(p) ==
    /\ call[p].pc = "createSession"
    /\ LET c == call[p]
           id == [n |-> c.serial, endpoint |-> c.endpoint, apiKey |-> c.apiKey]
           key == CacheKey(c.endpoint, c.apiKey)
       IN file' = SaveSessions(file,
                     PutRecord(c.cache, key, id, c.endpoint, c.nowRead),
                     TRUE).file
    /\ call' = [call EXCEPT ![p] =
          [@ EXCEPT !.pc = "done", !.outcome = "rejected",
                    !.error = "SessionError", !.cache = EmptyStore,
                    !.settledAt = started]]
    /\ UNCHANGED <<now, ticks, started, maintError>>
    /\ UNCHANGED streamVars
    /\ UNCHANGED auxVars

\* createSession throws (non-success status, no body, no id found): the
\* error propagates out of getSession, nothing is written.
CreateSessionFail(p) ==
    /\ call[p].pc = "createSession"
    /\ call' = [call EXCEPT ![p] =
          [@ EXCEPT !.pc = "done", !.outcome = "rejected",
                    !.error = "SessionError", !.cache = EmptyStore,
                    !.settledAt = started]]
    /\ UNCHANGED <<file, now, ticks, started, maintError>>
    /\ UNCHANGED streamVars
    /\ UNCHANGED auxVars

\* A caller that would not await getSession before posting, against which
\* the order of acquisition and POST is tested.
ReadyToPostNoAwait(p) == call[p].pc \in {"haveSession", "createSession"}

\* A caller that posts again after a POST it has issued, against which the
\* absence of retries is tested.
ReadyToPostAgain(p) == call[p].pc \in {"haveSession", "posted"}

\* callRemoteMcpTool issues the message POST once `await getSession(...)`
\* has given it the session id.
ReadyToPost(p) == call[p].pc = "haveSession"

PostIssue(p) ==
    /\ ReadyToPost(p)
    /\ call' = [call EXCEPT ![p] = [@ EXCEPT !.pc = "posted", !.posts = @ + 1]]
    /\ UNCHANGED <<file, now, ticks, started, maintError>>
    /\ UNCHANGED streamVars
    /\ UNCHANGED auxVars

\* The POST is answered (or fails): a non-success status or a missing body
\* throws, a body is read by processStream to its end.
PostResponse(p, resp) ==
    /\ call[p].pc = "posted"
    /\ call' = [call EXCEPT ![p] =
          IF resp.kind # "body"
          THEN [@ EXCEPT !.pc = "done", !.outcome = "rejected",
                         !.error = "ToolError"]
          ELSE LET st == SseDrain(SseStart(<<resp.body>>, TRUE), TRUE)
               IN [@ EXCEPT !.pc = "done", !.outcome = st.outcome,
                            !.error = IF st.outcome = "rejected"
                                      THEN "ToolError" ELSE "none"]]
    /\ UNCHANGED <<file, now, ticks, started, maintError>>
    /\ UNCHANGED streamVars
    /\ UNCHANGED auxVars

\* clearExpiredSessions()
ClearExpiredSessions(writeOk) ==
    /\ LET cache == LoadSessions(file)
       IN IF ~HasSessions(cache)
          THEN /\ maintError' = "TypeError"
               /\ UNCHANGED file
          ELSE /\ maintError' = "none"
               /\ file' = AfterClearExpired(file, now, writeOk)
    /\ UNCHANGED <<now, ticks, started, call>>
    /\ UNCHANGED streamVars
    /\ UNCHANGED auxVars

\* clearAllSessions()
ClearAllSessions(writeOk) ==
    /\ file' = AfterClearAll(file, writeOk)
    /\ maintError' = "none"
    /\ UNCHANGED <<now, ticks, started, call>>
    /\ UNCHANGED streamVars
    /\ UNCHANGED auxVars

\* The clock advances.
Tick(d) ==
    /\ ticks < MaxTicks
    /\ ticks' = ticks + 1
    /\ now' = now + d
    /\ UNCHANGED <<file, started, call, maintError>>
    /\ UNCHANGED streamVars
    /\ UNCHANGED auxVars

Next ==
    \/ \E p \in Procs, ec \in Pairs :
          GetSessionEnter(p, "getSession", ec[1], ec[2])
    \/ \E p \in Procs, writeOk \in BOOLEAN : CreateSessionOk(p, writeOk)
    \/ \E p \in Procs : CreateSessionFail(p)
    \/ \E writeOk \in BOOLEAN : ClearExpiredSessions(writeOk)
    \/ \E writeOk \in BOOLEAN : ClearAllSessions(writeOk)
    \/ \E d \in TickSteps : Tick(d)

\* The session store under concurrent getSession calls.
Spec == Init /\ [][Next]_vars

\* The session store under the calls of one callRemoteMcpTool caller.
ToolNext ==
    \/ \E ec \in Pairs : GetSessionEnter(1, "callTool", ec[1], ec[2])
    \/ \E writeOk \in BOOLEAN : CreateSessionOk(1, writeOk)
    \/ CreateSessionFail(1)
    \/ PostIssue(1)
    \/ \E resp \in PostResponses : PostResponse(1, resp)
    \/ \E writeOk \in BOOLEAN : ClearExpiredSessions(writeOk)
    \/ \E writeOk \in BOOLEAN : ClearAllSessions(writeOk)
    \/ \E d \in TickSteps : Tick(d)

ToolSpec == Init /\ [][ToolNext]_vars

\* ------------------------------------------------------------ one response
\* One response body, delivered in chunks to the session-based invoker (from
\* `return new Promise(...)` on) or as the subprocess's standard output to
\* the curl variant (from spawn on).
StoreIdle ==
    /\ file = [shape |-> "missing", sessions |-> {}]
    /\ now = 0
    /\ ticks = 0
    /\ started = 0
    /\ call = [p \in Procs |-> IdleCall]
    /\ maintError = "none"

CallInit ==
    /\ StoreIdle
    /\ AuxIdle
    /\ body \in Bodies
    /\ quotes \in BOOLEAN
    /\ \E chunks \in Chunkings(body, MaxChunks) :
          \/ /\ \E closes \in BOOLEAN : sse = SseStart(chunks, closes)
             /\ curl = CurlIdle
          \/ /\ sse = SseIdle
             /\ \E exit \in {0, 1, SignalExit} : curl = CurlStart(chunks, exit)

SseReadStep ==
    /\ SseCanRead(sse)
    /\ sse' = SseRead(sse, quotes)
    /\ UNCHANGED <<body, quotes, curl>>
    /\ UNCHANGED storeVars
    /\ UNCHANGED auxVars

SseReadErrorStep ==
    /\ sse.pc = "reading"
    /\ ~sse.cancelled
    /\ sse' = SseReadError(sse)
    /\ UNCHANGED <<body, quotes, curl>>
    /\ UNCHANGED storeVars
    /\ UNCHANGED auxVars

SseTimeoutStep ==
    /\ sse.timer = "armed"
    /\ sse' = SseTimeout(sse)
    /\ UNCHANGED <<body, quotes, curl>>
    /\ UNCHANGED storeVars
    /\ UNCHANGED auxVars

CurlDataStep ==
    /\ curl.pc = "running"
    /\ curl.stdout # <<>>
    /\ ~curl.killed
    /\ curl' = CurlData(curl)
    /\ UNCHANGED <<body, quotes, sse>>
    /\ UNCHANGED storeVars
    /\ UNCHANGED auxVars

\* The subprocess could not be spawned: nothing was written to its output.
CurlErrorStep ==
    /\ curl.pc = "running"
    /\ curl.buffer = <<>>
    /\ curl' = CurlError(curl)
    /\ UNCHANGED <<body, quotes, sse>>
    /\ UNCHANGED storeVars
    /\ UNCHANGED auxVars

\* The subprocess has ended and its output streams are closed.
CurlCloseStep ==
    /\ curl.pc \in {"running", "errored"}
    /\ curl.stdout = <<>> \/ curl.killed \/ curl.pc = "errored"
    /\ curl' = CurlClose(curl, quotes)
    /\ UNCHANGED <<body, quotes, sse>>
    /\ UNCHANGED storeVars
    /\ UNCHANGED auxVars

CurlTimeoutStep ==
    /\ curl.timer = "armed"
    /\ curl' = CurlTimeout(curl)
    /\ UNCHANGED <<body, quotes, sse>>
    /\ UNCHANGED storeVars
    /\ UNCHANGED auxVars

CallNext ==
    \/ SseReadStep
    \/ SseReadErrorStep
    \/ SseTimeoutStep
    \/ CurlDataStep
    \/ CurlErrorStep
    \/ CurlCloseStep
    \/ CurlTimeoutStep

CallSpec == CallInit /\ [][CallNext]_vars

\* ------------------------------------------------------------ one response, timed
\* The session-based invoker reading one response, with the clock: the
\* Promise is created (and its timer armed) at time 0.
\* setTimeout(..., 30000)
TOOL_TIMEOUT == 30000

TimedCallInit ==
    /\ StoreIdle
    /\ AuxIdle
    /\ body \in Bodies
    /\ quotes \in BOOLEAN
    /\ \E chunks \in Chunkings(body, MaxChunks), closes \in BOOLEAN :
          sse = SseStart(chunks, closes)
    /\ curl = CurlIdle

\* Time passes while the timer is armed, up to the moment it is due.
TimePasses(t) ==
    /\ sse.timer = "armed"
    /\ now < t
    /\ t <= TOOL_TIMEOUT
    /\ now' = t
    /\ UNCHANGED <<file, ticks, started, call, maintError>>
    /\ UNCHANGED streamVars
    /\ UNCHANGED auxVars

\* The timer callback runs once its 30000 ms have elapsed.
ToolTimerFires ==
    /\ now >= TOOL_TIMEOUT
    /\ SseTimeoutStep

TimedCallNext ==
    \/ SseReadStep
    \/ SseReadErrorStep
    \/ ToolTimerFires
    \/ \E t \in {1, TOOL_TIMEOUT - 1, TOOL_TIMEOUT} : TimePasses(t)

\* Time passes, and the event loop runs a timer that is due. Nothing is
\* assumed about when the server sends or closes.
TimedCallSpec ==
    /\ TimedCallInit
    /\ [][TimedCallNext]_vars
    /\ WF_vars(ToolTimerFires)
    /\ WF_vars(\E t \in {1, TOOL_TIMEOUT - 1, TOOL_TIMEOUT} : TimePasses(t))

\* ------------------------------------------------------------ one session-open request
\* The bodies of session-open responses: what comes before the id (the
\* vendor's endpoint event, nothing, or event-stream text of 1000 and of
\* 1500 characters), the id, and what follows it (a terminator, or the end
\* of the body); and bodies without an id.
AcqPreambles ==
    { <<"event:endpoint", "\n", "data:/message?">>, <<>>,
      <<"pad", "pad">>, <<"pad", "pad", "pad">> }

AcqIds == { <<"a">>, <<"a", "b">> }

AcqTails == { <<"&", "x">>, <<" ">>, <<"\n", "\n">>, <<>> }

AcqBodies ==
    { pre \o <<"session", "Id=">> \o id \o tail :
        pre \in AcqPreambles, id \in AcqIds, tail \in AcqTails }
    \cup { <<"event:endpoint", "\n", "\n">>, <<"pad", "pad", "pad">>,
           <<"session", "Id=", "&", "x">> }

\* The response body as the server sends it: what was read and what is
\* still to come.
RECURSIVE Flatten(_)
Flatten(chunks) ==
    IF chunks = <<>> THEN <<>> ELSE Head(chunks) \o Flatten(Tail(chunks))

AcqInit ==
    /\ StoreIdle
    /\ StreamIdle
    /\ urls = UrlIdle
    /\ norm = NormIdle
    /\ MoreIdle
    /\ \E b \in AcqBodies, closes \in BOOLEAN :
          \E chunks \in Chunkings(b, MaxChunks) : acq = AcqStart(chunks, closes)

AcqUnchanged ==
    /\ UNCHANGED <<file, now, ticks, started, call, maintError>>
    /\ UNCHANGED streamVars
    /\ UNCHANGED <<urls, norm>>
    /\ UNCHANGED moreVars

\* The server answers the session-open GET (or the request fails).
AcqResponseStep(kind) ==
    /\ acq.pc = "fetching"
    /\ acq' = AcqResponse(acq, kind, now)
    /\ AcqUnchanged

AcqReadStep ==
    /\ AcqCanRead(acq)
    /\ acq' = AcqRead(acq)
    /\ AcqUnchanged

AcqReadErrorStep ==
    /\ acq.pc = "reading"
    /\ ~acq.cancelled
    /\ acq' = AcqReadError(acq)
    /\ AcqUnchanged

\* The timer callback runs once its 5000 ms have elapsed.
AcqTimerFires ==
    /\ acq.timer = "armed"
    /\ now >= acq.armedAt + ACQ_TIMEOUT
    /\ acq' = AcqTimeout(acq)
    /\ AcqUnchanged

\* Time passes: while the request is unanswered, and while the timer is
\* armed up to the moment it is due.
AcqTimePasses(t) ==
    /\ now < t
    /\ \/ acq.pc = "fetching" /\ t \in {1, ACQ_TIMEOUT + 1}
       \/ /\ acq.timer = "armed"
          /\ t \in {acq.armedAt + 1, acq.armedAt + ACQ_TIMEOUT - 1,
                    acq.armedAt + ACQ_TIMEOUT}
    /\ now' = t
    /\ UNCHANGED <<file, ticks, started, call, maintError>>
    /\ UNCHANGED streamVars
    /\ UNCHANGED auxVars

AcqTimes == {1, 2, ACQ_TIMEOUT - 1, ACQ_TIMEOUT, ACQ_TIMEOUT + 1,
             ACQ_TIMEOUT + 2, 2 * ACQ_TIMEOUT, 2 * ACQ_TIMEOUT + 1}

AcqNext ==
    \/ \E kind \in {"ok", "notOk", "noBody", "rejected"} : AcqResponseStep(kind)
    \/ AcqReadStep
    \/ AcqReadErrorStep
    \/ AcqTimerFires
    \/ \E t \in AcqTimes : AcqTimePasses(t)

\* Time passes, and the event loop runs a read that can return and a timer
\* that is due. Nothing is assumed about when the server answers, sends
\* or closes.
AcqSpec ==
    /\ AcqInit
    /\ [][AcqNext]_vars
    /\ WF_vars(AcqReadStep)
    /\ WF_vars(AcqTimerFires)
    /\ WF_vars(\E t \in AcqTimes : AcqTimePasses(t))

\* ------------------------------------------------------------ one withRetry call
\* The retry counts given to withRetry.
MaxRetry == 6

\* The retry counts withRetry is given: the counts from 0, and negative
\* ones down to -MaxNegative (a retry setting such as
\* ZAI_MCP_RETRY_COUNT=-1 parses to one).
MaxNegative == 2

RetryInit ==
    /\ StoreIdle
    /\ StreamIdle
    /\ acq = AcqIdle
    /\ urls = UrlIdle
    /\ norm = NormIdle
    /\ reqs = <<>>
    /\ post = PostIdle
    /\ \E n \in (0 - MaxNegative)..MaxRetry :
          retry = [RetryIdle EXCEPT !.pc = "entered", !.retryCount = n]

RetryUnchanged ==
    /\ UNCHANGED <<file, ticks, started, call, maintError>>
    /\ UNCHANGED streamVars
    /\ UNCHANGED <<acq, urls, norm, reqs, post>>

\* withRetry is called: the first loop test and the first invocation.
WithRetryEntered ==
    /\ retry.pc = "entered"
    /\ retry' = RetryStart(retry.retryCount, now)
    /\ UNCHANGED now
    /\ RetryUnchanged

FnSucceeds(v) ==
    /\ retry.pc = "calling"
    /\ retry' = RetryFnOk(retry, v, now)
    /\ UNCHANGED now
    /\ RetryUnchanged

FnFails(e) ==
    /\ retry.pc = "calling"
    /\ retry' = RetryFnFails(retry, e, now)
    /\ UNCHANGED now
    /\ RetryUnchanged

\* The delay's timer fires when its time has come.
DelayElapses ==
    /\ retry.pc = "waiting"
    /\ now' = retry.wakeAt
    /\ retry' = RetryLoop(retry, now')
    /\ RetryUnchanged

\* fn takes a millisecond.
FnTakesTime ==
    /\ retry.pc = "calling"
    /\ Len(retry.invokedAt) > Len(retry.settledAt)
    /\ now = retry.invokedAt[Len(retry.invokedAt)]
    /\ now' = now + 1
    /\ UNCHANGED retry
    /\ RetryUnchanged

RetryNext ==
    \/ WithRetryEntered
    \/ \E v \in FnValues : FnSucceeds(v)
    \/ \E e \in FnErrors : FnFails(e)
    \/ DelayElapses
    \/ FnTakesTime

RetrySpec == RetryInit /\ [][RetryNext]_vars

\* ------------------------------------------------------------ request ids
\* The tools/call requests one process builds: a caller of either transport
\* builds its JSON-RPC request with id: Date.now(). Several calls can be
\* under way at once (async callers of one process), so that requests are
\* built with the clock unchanged between them.
MaxRequests == 3

Transports == {"session", "curl"}

\* const jsonRpcRequest = { jsonrpc: '2.0', id: Date.now(), ... }
JsonRpcRequest(transport, t) == [transport |-> transport, id |-> t]

ReqInit ==
    /\ StoreIdle
    /\ StreamIdle
    /\ acq = AcqIdle
    /\ urls = UrlIdle
    /\ norm = NormIdle
    /\ retry = RetryIdle
    /\ post = PostIdle
    /\ reqs = <<>>

BuildRequest(transport) ==
    /\ Len(reqs) < MaxRequests
    /\ reqs' = Append(reqs, JsonRpcRequest(transport, now))
    /\ UNCHANGED storeVars
    /\ UNCHANGED streamVars
    /\ UNCHANGED <<acq, urls, norm, retry, post>>

\* Time passes between two requests.
ReqTimePasses(d) ==
    /\ ticks < MaxTicks + MaxRequests
    /\ ticks' = ticks + 1
    /\ now' = now + d
    /\ UNCHANGED <<file, started, call, maintError>>
    /\ UNCHANGED streamVars
    /\ UNCHANGED auxVars

ReqNext ==
    \/ \E tr \in Transports : BuildRequest(tr)
    \/ \E d \in {1, TOOL_TIMEOUT} : ReqTimePasses(d)

ReqSpec == ReqInit /\ [][ReqNext]_vars

\* ------------------------------------------------------------ one answered POST
\* One message POST of either transport, answered with an HTTP status and
\* a body.
StatusInit ==
    /\ StoreIdle
    /\ body = <<>>
    /\ sse = SseIdle
    /\ curl = CurlIdle
    /\ quotes \in BOOLEAN
    /\ acq = AcqIdle
    /\ urls = UrlIdle
    /\ norm = NormIdle
    /\ retry = RetryIdle
    /\ reqs = <<>>
    /\ \E tr \in Transports, st \in Statuses, b \in Bodies :
          post = PostStart(tr, st, b)

StatusUnchanged ==
    /\ UNCHANGED storeVars
    /\ UNCHANGED streamVars
    /\ UNCHANGED <<acq, urls, norm, retry, reqs>>

SessionPostAnswered ==
    /\ post.pc = "sent"
    /\ post.transport = "session"
    /\ post' = SessionPostAnswer(post, quotes)
    /\ StatusUnchanged

CurlPostAnswered ==
    /\ post.pc = "sent"
    /\ post.transport = "curl"
    /\ post' = CurlPostAnswer(post, quotes)
    /\ StatusUnchanged

StatusNext ==
    \/ SessionPostAnswered
    \/ CurlPostAnswered

StatusSpec == StatusInit /\ [][StatusNext]_vars

\* ------------------------------------------------------------ one stream of several lines
\* The session-based invoker reads one response stream of several lines.
StreamInit ==
    /\ StoreIdle
    /\ AuxIdle
    /\ body \in StreamBodies
    /\ quotes \in BOOLEAN
    /\ \E chunks \in Chunkings(body, MaxChunks), closes \in BOOLEAN :
          sse = SseStart(chunks, closes)
    /\ curl = CurlIdle

StreamNext ==
    \/ SseReadStep
    \/ SseReadErrorStep
    \/ SseTimeoutStep

StreamSpec == StreamInit /\ [][StreamNext]_vars

\* ------------------------------------------------------------ store maintenance
\* The store holds two records when the run starts, one a millisecond older
\* than the other; getSession calls and the two clear operations follow.
MaintStores ==
    {[shape |-> "store",
      sessions |-> PutRecord(EarlierStore(ab[1][1], ab[1][2]),
                             CacheKey(ab[2][1], ab[2][2]),
                             [n |-> 0, endpoint |-> ab[2][1], apiKey |-> ab[2][2]],
                             ab[2][1], 1).sessions] :
        ab \in {pq \in Pairs \X Pairs :
                   CacheKey(pq[1][1], pq[1][2]) # CacheKey(pq[2][1], pq[2][2])}}

MaintInit ==
    /\ file \in MaintStores
    /\ now = 1
    /\ ticks = 0
    /\ started = 0
    /\ call = [p \in Procs |-> IdleCall]
    /\ maintError = "none"
    /\ StreamIdle
    /\ AuxIdle

MaintNext ==
    \/ \E ec \in Pairs : GetSessionEnter(1, "getSession", ec[1], ec[2])
    \/ \E writeOk \in BOOLEAN : CreateSessionOk(1, writeOk)
    \/ CreateSessionFail(1)
    \/ \E writeOk \in BOOLEAN : ClearExpiredSessions(writeOk)
    \/ \E writeOk \in BOOLEAN : ClearAllSessions(writeOk)
    \/ \E d \in TickSteps : Tick(d)

MaintSpec == MaintInit /\ [][MaintNext]_vars

\* ------------------------------------------------------------ claims
\* The (endpoint, credential) a call was made for, and whether two calls
\* were made for the same one.
SamePair(p, q) ==
    call[p].endpoint = call[q].endpoint /\ call[p].apiKey = call[q].apiKey

\* getSession of call q has returned an id, and call p started after that.
ReturnedBefore(q, p) ==
    /\ p # q
    /\ call[q].sessionId # NoId
    /\ call[p].serial > call[q].settledAt

\* The end of the validity window of the id call q returned: the expiresAt
\* of the record it was read from or written with.
WindowEnd(q) ==
    IF call[q].gets = 0 THEN call[q].cached.expiresAt
    ELSE call[q].nowRead + SESSION_TTL

C2_CredentialIsolation ==
    /\ \A p \in Procs :
          call[p].sessionId # NoId =>
              ~(call[p].sessionId.endpoint = call[p].endpoint
                /\ call[p].sessionId.apiKey # call[p].apiKey)
    /\ \A p \in Procs, q \in Procs :
          (call[p].sessionId # NoId /\ call[q].sessionId # NoId
              /\ call[p].endpoint = call[q].endpoint
              /\ call[p].apiKey # call[q].apiKey)
          => (call[p].sessionId.n # call[q].sessionId.n
              /\ call[p].sessionId.apiKey = call[p].apiKey
              /\ call[q].sessionId.apiKey = call[q].apiKey)

\* C2 witness: two calls for one endpoint with different credentials have
\* both returned, the later one started after the earlier one returned, and
\* the store holds the records of both ids.
C2_Witness ==
    \E p \in Procs, q \in Procs :
        /\ ReturnedBefore(q, p)
        /\ call[p].sessionId # NoId
        /\ call[p].endpoint = call[q].endpoint
        /\ call[p].apiKey # call[q].apiKey
        /\ \E r \in file.sessions : r.sessionId = call[q].sessionId
        /\ \E r \in file.sessions : r.sessionId = call[p].sessionId

\* C3 (as stated): the id getSession(e, c) returns was acquired by a
\* session-open request for exactly (e, c).
C3_IdAcquiredForItsPair ==
    \A p \in Procs :
        call[p].sessionId # NoId =>
            (call[p].sessionId.endpoint = call[p].endpoint
             /\ call[p].sessionId.apiKey = call[p].apiKey)

\* C4: getSession returns a cached id without acquiring only from a record
\* with now < expiresAt; every stored record has expiresAt = createdAt +
\* 3,600,000; with no record or now >= expiresAt it issues the session-open
\* GET, and the id it then returns is the newly acquired one, whose record
\* replaces the one under the key when the write succeeds.
C4_State ==
    /\ \A p \in Procs :
          (call[p].gets = 0 /\ call[p].sessionId # NoId) =>
              (call[p].cached.sessionId = call[p].sessionId
               /\ call[p].nowRead < call[p].cached.expiresAt)
    /\ \A r \in file.sessions : r.expiresAt = r.createdAt + 3600000
    /\ \A p \in Procs :
          (call[p].pc # "idle" /\ call[p].error # "TypeError"
              /\ (call[p].cached = NoRecord
                  \/ call[p].nowRead >= call[p].cached.expiresAt))
          => (call[p].gets = 1
              /\ (call[p].sessionId # NoId =>
                    call[p].sessionId.n = call[p].serial))

C4_Step ==
    \A p \in Procs :
        (call[p].pc = "createSession" /\ call'[p].sessionId # NoId
            /\ ~call'[p].saveFailed)
        => LET r == Lookup(file', CacheKey(call[p].endpoint, call[p].apiKey))
           IN /\ r.sessionId = call'[p].sessionId
              /\ r.createdAt = call[p].nowRead
              /\ r.expiresAt = call[p].nowRead + 3600000

C5_SessionBeforePost ==
    \A p \in Procs :
        /\ call[p].posts > 0 =>
              (call[p].sessionId # NoId /\ call[p].settledAt > 0)
        /\ call[p].error \in {"SessionError", "TypeError", "WriteError"} =>
              call[p].posts = 0
        /\ call[p].posts <= 1

\* C5 witness: a tool call that acquired its session and has posted.
C5_Witness ==
    \E p \in Procs :
        call[p].op = "callTool" /\ call[p].gets = 1 /\ call[p].posts = 1

\* C6 (as stated): whatever the store file holds, getSession and
\* clearExpiredSessions do not throw because of it.
C6_LoadNeverRaises ==
    /\ \A p \in Procs : call[p].error # "TypeError"
    /\ maintError # "TypeError"

\* C7: when the session-open GET succeeded and the write of the store file
\* fails, getSession returns the acquired id to its caller and the store
\* file is left as it was; a later call for the same pair is not answered
\* with that id from the store: it acquires again (or is answered from a
\* record another call stored).
C7_Step ==
    \A p \in Procs :
        (call[p].pc = "createSession" /\ call'[p].saveFailed)
        => /\ call'[p].outcome # "rejected"
           /\ call'[p].sessionId =
                 [n |-> call[p].serial, endpoint |-> call[p].endpoint,
                  apiKey |-> call[p].apiKey]
           /\ file' = file

C7_WriteFailureTolerated ==
    /\ [](\A p \in Procs : call[p].saveFailed =>
             (call[p].sessionId # NoId /\ call[p].error = "none"))
    /\ [](\A q \in Procs, p \in Procs :
             (call[q].saveFailed /\ ReturnedBefore(q, p) /\ SamePair(p, q)
                 /\ call[p].pc # "idle")
             => (call[p].gets = 1 \/ call[p].sessionId # call[q].sessionId))
    /\ [][C7_Step]_vars

\* C7 witness: a getSession call whose write failed and which returned.
C7_Witness ==
    \E p \in Procs :
        call[p].saveFailed /\ call[p].pc = "done"
            /\ call[p].outcome = "resolved"

\* ------------------------------------------------------------ tool call results
\* A call of the session-based invoker whose response was read to its end:
\* no timeout fired and no read failed.
SseReadToEnd ==
    sse.pc = "finished" /\ ~sse.readError /\ sse.timer # "fired"

\* A call of the curl variant whose subprocess exited with code 0 after its
\* whole output was received, with no timeout and no spawn error.
CurlReadToEnd ==
    /\ curl.pc = "closed" /\ curl.exit = 0 /\ curl.stdout = <<>>
    /\ ~curl.spawnError /\ curl.timer # "fired"

ErrorPayload == <<"{", "error:{message:bad tool}", "}">>

\* C8: a response whose JSON-RPC payload carries an error object with
\* message m ('bad tool') makes the tool call fail with an error whose
\* message contains m, for the SSE-framed body and for the bare JSON body,
\* in the session-based invoker and in the curl variant.
C8_ErrorSurfacing ==
    body \in {SseFrame(ErrorPayload), SseFrameSp(ErrorPayload), Bare(ErrorPayload)}
    => /\ SseReadToEnd
          => sse.outcome = "rejected" /\ Includes(sse.message, <<"bad tool">>)
       /\ CurlReadToEnd
          => curl.outcome = "rejected" /\ Includes(curl.message, <<"bad tool">>)

\* C9: in the session-based invoker, a successful response delivered as a
\* bare JSON body resolves the call with the same normalized value as the
\* same response delivered on an SSE data: line.
C9_BothFramings ==
    \A t \in PayloadTexts :
        LET framed == SseDrain(SseStart(<<SseFrame(t)>>, TRUE), quotes)
        IN (body = Bare(t) /\ framed.outcome = "resolved" /\ SseReadToEnd)
           => sse.outcome = "resolved" /\ sse.value = framed.value

\* An empty success value: undefined, null, the empty string, the empty list.
EmptyValue(x) == x \in {Undef, Null, Str(<<>>), Arr(<<>>)}

\* C10: a tool call never produces an empty success: a stream that ends
\* with no payload carrying an error, a result.content or a result fails the
\* call with 'MCP stream ended without result', and a call that resolves
\* does so with a defined, non-empty value.
C10_NoEmptySuccess ==
    /\ (SseReadToEnd /\ ~sse.hasResult)
       => sse.outcome = "rejected"
          /\ sse.message = <<"MCP stream ended without result">>
    /\ sse.outcome = "resolved" => ~EmptyValue(sse.value)
    /\ curl.outcome = "resolved" => ~EmptyValue(curl.value)

\* ------------------------------------------------------------ timeouts
\* A response stream that stays open and carries no payload.
QuietOpenStream ==
    sse.pc # "idle" /\ body \in {KeepAlive, EmptyData} /\ ~sse.closes

TimedOut == <<"MCP request timed out waiting for response">>

\* C11: a response stream that stays open and emits only keep-alive noise
\* makes the call fail: it stays pending until 30000 ms have elapsed since
\* the read started, the timer callback then rejects it with the timeout
\* error and cancels the reader, and this does happen (the call does not
\* hang).
C11_Step ==
    (QuietOpenStream /\ sse.timer = "armed" /\ sse'.timer = "fired")
    => /\ now >= 30000
       /\ sse'.outcome = "rejected" /\ sse'.message = TimedOut
       /\ sse'.cancelled

C11_StreamTimeout ==
    /\ []((QuietOpenStream /\ sse.outcome # "pending" /\ ~sse.readError)
            => (sse.outcome = "rejected" /\ sse.message = TimedOut
                /\ sse.cancelled /\ now >= 30000))
    /\ [][C11_Step]_vars
    /\ (QuietOpenStream ~> sse.outcome = "rejected")

\* C11 witness: a quiet open stream whose call was rejected by the timer
\* at 30000 ms and whose cancelled read has returned.
C11_Witness ==
    /\ QuietOpenStream
    /\ sse.outcome = "rejected" /\ sse.message = TimedOut
    /\ sse.timer = "fired" /\ sse.pc = "finished" /\ now = 30000

\* ------------------------------------------------------------ request URLs
\* One endpoint and one credential, for which the program builds its three
\* request URLs: the session-open URL of createSession, the message URL
\* of callRemoteMcpTool and the endpoint URL of the curl variant.
UrlSessionIds == { <<"a">>, <<"a", "b">> }

UrlInit ==
    /\ StoreIdle
    /\ StreamIdle
    /\ acq = AcqIdle
    /\ norm = NormIdle
    /\ MoreIdle
    /\ \E e \in UrlEndpoints, k \in UrlCredentials : urls = UrlStart(e, k)

UrlUnchanged ==
    /\ UNCHANGED storeVars
    /\ UNCHANGED streamVars
    /\ UNCHANGED <<acq, norm>>
    /\ UNCHANGED moreVars

BuildSessionOpenUrl ==
    /\ urls.pc = "building"
    /\ urls.sessionOpen = NoUrl
    /\ urls' = [urls EXCEPT
                  !.sessionOpen = SessionOpenUrl(urls.endpoint, urls.apiKey)]
    /\ UrlUnchanged

BuildMessageUrl(sessionId) ==
    /\ urls.pc = "building"
    /\ urls.message = NoUrl
    /\ urls' = [urls EXCEPT
                  !.message = MessageUrl(urls.endpoint, sessionId, urls.apiKey)]
    /\ UrlUnchanged

BuildCurlUrl ==
    /\ urls.pc = "building"
    /\ urls.curl = NoUrl
    /\ urls' = [urls EXCEPT
                  !.curl = GetEndpointWithAuth(urls.endpoint, urls.apiKey)]
    /\ UrlUnchanged

UrlNext ==
    \/ BuildSessionOpenUrl
    \/ \E sid \in UrlSessionIds : BuildMessageUrl(sid)
    \/ BuildCurlUrl

UrlSpec == UrlInit /\ [][UrlNext]_vars

\* ------------------------------------------------------------ normalization
\* One content value, which the handler of a result payload normalizes; the
\* code is the same in the session-based invoker and in the curl variant.
NormInit ==
    /\ StoreIdle
    /\ body = <<>>
    /\ sse = SseIdle
    /\ curl = CurlIdle
    /\ acq = AcqIdle
    /\ urls = UrlIdle
    /\ MoreIdle
    /\ quotes \in BOOLEAN
    /\ \E c \in Contents : norm = NormStart(c)

NormalizeStep ==
    /\ norm.pc = "start"
    /\ norm' = NormApply(norm, quotes)
    /\ UNCHANGED storeVars
    /\ UNCHANGED streamVars
    /\ UNCHANGED <<acq, urls>>
    /\ UNCHANGED moreVars

NormNext == NormalizeStep

NormSpec == NormInit /\ [][NormNext]_vars

\* ------------------------------------------------------------ session acquisition
\* C12 (as stated): every network-bound wait has an upper bound: a
\* createSession call settles even when the server never answers the
\* session-open GET, and a timer that expires cancels the read.
C12_WaitsBounded ==
    /\ (acq.pc \in {"fetching", "reading"}) ~> (acq.pc = "done")
    /\ [](acq.timer = "fired" => acq.cancelled)

\* C13: once the response body is being read, createSession is bounded: it
\* stops reading when the buffered text exceeds 1000 characters, it
\* returns an id only when the buffered text holds a match and the timer
\* has not fired, it throws when the stream ends or the text exceeds 1000
\* characters without a match, no id is returned once the 5000 ms timer has
\* fired, and the read does end.
C13_Step ==
    (acq.pc = "reading" /\ acq.timer = "fired")
    => (acq'.outcome # "returned"
        /\ (acq'.pc = "done" => acq'.message = ExtractFailed))

C13_AcquisitionBounded ==
    /\ [](acq.pc = "reading" => TextLen(acq.buffer) <= 1000)
    /\ [](acq.outcome = "returned"
            => (MatchSessionId(acq.buffer).found /\ acq.timer = "cleared"))
    /\ []((acq.pc = "done" /\ acq.timer # "none"
             /\ ~MatchSessionId(acq.buffer).found)
            => acq.outcome = "threw")
    /\ [](acq.timer = "fired" => now >= acq.armedAt + 5000)
    /\ [][C13_Step]_vars
    /\ (acq.pc = "reading" ~> acq.pc = "done")

\* C13 witness: a stream the server keeps open, without an id: the timer
\* fired at 5000 ms after the read started and createSession threw.
C13_Witness ==
    /\ acq.pc = "done" /\ ~acq.closes /\ acq.timer = "fired"
    /\ now = acq.armedAt + 5000
    /\ acq.outcome = "threw" /\ acq.message = ExtractFailed
    /\ ~MatchSessionId(acq.buffer).found

\* The whole body of the session-open response.
AcqBody == acq.buffer \o Flatten(acq.chunks)

\* Whether 'sessionId=' occurs at position i of s.
MarkerAt(s, i) == i + 1 <= Len(s) /\ s[i] = "session" /\ s[i + 1] = "Id="

\* The characters after the first 'sessionId=' of s up to but excluding the
\* first following '&', whitespace or newline.
ValueAfterFirstMarker(s) ==
    LET i == CHOOSE i \in 1..Len(s) :
                 MarkerAt(s, i) /\ \A j \in 1..(i - 1) : ~MarkerAt(s, j)
    IN IdRun(SubSeq(s, i + 2, Len(s)))

\* s contains 'sessionId=<value>' followed by a terminator.
HasTerminatedId(s) ==
    /\ \E i \in 1..Len(s) : MarkerAt(s, i)
    /\ ValueAfterFirstMarker(s) # <<>>
    /\ \E i \in 1..Len(s) :
          /\ MarkerAt(s, i) /\ \A j \in 1..(i - 1) : ~MarkerAt(s, j)
          /\ i + 2 + Len(ValueAfterFirstMarker(s)) <= Len(s)

\* C14 (as stated): for a stream body containing 'sessionId=<value>'
\* followed by '&', whitespace or newline, the id createSession returns is
\* exactly <value>.
C14_ExtractsValue ==
    (acq.outcome = "returned" /\ HasTerminatedId(AcqBody))
    => acq.id = ValueAfterFirstMarker(AcqBody)

\* createSession ended by itself: by a return, the 1000 character limit
\* or the end of the stream, not by the timer or a failed read.
AcqRanToEnd == acq.pc = "done" /\ acq.timer = "cleared"

\* C15 (as stated): for every way of splitting the stream body into
\* chunks, createSession returns the same id as when the body arrives in
\* one chunk.
C15_ChunkingIrrelevant ==
    LET one == AcqDrain(AcqResponse(AcqStart(<<AcqBody>>, TRUE), "ok", 0))
    IN (one.outcome = "returned" /\ AcqRanToEnd)
       => (acq.outcome = "returned" /\ acq.id = one.id)

\* ------------------------------------------------------------ request URLs
\* url ends with 'Authorization=' followed by the credential as given.
EndsWithRawCredential(url, apiKey) ==
    LET tail == <<"Authorization=">> \o apiKey
    IN /\ Len(url) >= Len(tail)
       /\ SubSeq(url, Len(url) - Len(tail) + 1, Len(url)) = tail

\* C16: for any credential, including ones with the characters + / ? & =,
\* the session-open URL, the message URL and the endpoint URL of the curl
\* variant each hold the credential unmodified right after 'Authorization='.
C16_RawCredential ==
    /\ urls.sessionOpen # NoUrl
         => EndsWithRawCredential(urls.sessionOpen, urls.apiKey)
    /\ urls.message # NoUrl
         => EndsWithRawCredential(urls.message, urls.apiKey)
    /\ urls.curl # NoUrl
         => EndsWithRawCredential(urls.curl, urls.apiKey)

\* C16 witness: the three URLs built for a credential made of '+' and '&'.
C16_Witness ==
    /\ urls.apiKey = <<"+", "&">>
    /\ urls.sessionOpen # NoUrl /\ urls.message # NoUrl /\ urls.curl # NoUrl
    /\ EncodeURIComponent(urls.apiKey) # urls.apiKey

\* The character a URL built from an endpoint has right after the endpoint.
SeparatorOf(url, endpoint) == url[Len(endpoint) + 1]

ExpectedSeparator(endpoint) == IF HasQuery(endpoint) THEN "&" ELSE "?"

\* C17 (as stated): the separator before 'Authorization=' is '&' when the
\* endpoint already has a query string and '?' when it has none, in the
\* session-open URL of createSession and in getEndpointWithAuth.
C17_QueryAppend ==
    /\ urls.sessionOpen # NoUrl
         => SeparatorOf(urls.sessionOpen, urls.endpoint)
              = ExpectedSeparator(urls.endpoint)
    /\ urls.curl # NoUrl
         => SeparatorOf(urls.curl, urls.endpoint)
              = ExpectedSeparator(urls.endpoint)

\* ------------------------------------------------------------ normalization
\* C18 (as stated): normalizing a content value never throws, whatever
\* the value: any array, with elements that are null, numbers, strings or
\* objects without a text field, and any value that is no array.
C18_NormalizeNeverThrows == norm.pc = "normalized" => ~norm.threw

\* C19: for a content array, which is always normalized, whose joined text
\* after trimming starts with '{' or '[', the result is the parsed JSON
\* value when the text parses and the joined text unchanged when it does
\* not; when the trimmed text starts otherwise the result is the joined
\* text. [{text: '{"ok":true}'}] gives the object {ok: true} and
\* [{text: 'plain text'}] gives 'plain text'. (Arrays with a null element
\* have no joined text.)
HasJoinedText(content) ==
    /\ content.t = "arr"
    /\ \A i \in 1..Len(content.v) : content.v[i].t \notin {"null", "undefined"}

C19_JsonAsText ==
    /\ (norm.pc # "start" /\ norm.content.t = "arr") => norm.pc = "normalized"
    /\ (norm.pc = "normalized" /\ HasJoinedText(norm.content))
       => LET text == TextContent(norm.content)
              trimmed == Trim(text)
              parsed == JsonParse(text, quotes)
          IN /\ ~norm.threw
             /\ IF trimmed # <<>> /\ trimmed[1] \in {"{", "["} /\ parsed.ok
                THEN norm.value = parsed.value
                ELSE norm.value = Str(text)
    /\ (norm.pc = "normalized"
          /\ norm.content = Arr(<<Obj([text |-> Str(InnerOkText)])>>))
       => norm.value = InnerOkValue
    /\ (norm.pc = "normalized"
          /\ norm.content = Arr(<<Obj([text |-> Str(<<"plain text">>)])>>))
       => norm.value = Str(<<"plain text">>)

\* C19 witness: an array whose text starts with a blank before '{' and
\* parses, normalized to the parsed object.
C19_Witness ==
    /\ norm.pc = "normalized"
    /\ norm.content = Arr(<<Obj([text |-> Str(<<" ">> \o InnerOkText)])>>)
    /\ norm.value = InnerOkValue

\* C20: a structured content value that is no array (an object) is always
\* normalized, and normalizing a value that is no array returns it
\* unchanged.
C20_NonSequenceUnchanged ==
    /\ (norm.pc # "start" /\ norm.content.t = "obj") => norm.pc = "normalized"
    /\ (norm.pc = "normalized" /\ norm.content.t # "arr")
       => (~norm.threw /\ norm.value = norm.content)

\* C20 witness: the object {ok: true} given as content and returned as it is.
C20_Witness ==
    /\ norm.pc = "normalized"
    /\ norm.content = InnerOkValue
    /\ norm.value = InnerOkValue /\ ~norm.threw

\* ------------------------------------------------------------ the two transports
\* What the curl variant settles with when its subprocess exits with code 0
\* after writing the whole response body.
CurlOutcomeFor(b) == CurlParse(b, quotes)

\* C21 (as stated): the two transports are interchangeable: for every
\* response body, the session-based invoker that read it to its end and the
\* curl variant settle alike, with the same resolved value or with a
\* failure that embeds the same message.
C21_TransportsAgree ==
    SseReadToEnd
    => LET c == CurlOutcomeFor(body)
       IN \/ /\ sse.outcome = "resolved" /\ c.kind = "resolve"
             /\ sse.value = c.value
          \/ /\ sse.outcome = "rejected" /\ c.kind = "reject"
             /\ (Includes(c.message, sse.message)
                 \/ Includes(sse.message, c.message))

\* C22: the curl variant's failure handling: after a spawn error, and after
\* the subprocess closed with a non-zero code or by a signal, the call has
\* failed and is not resolved; a timeout that fires before the call has
\* settled kills the subprocess and fails the call; and no call is settled
\* while its subprocess is running and was not killed.
C22_Step ==
    (curl.timer = "armed" /\ curl'.timer = "fired" /\ ~curl.settled)
    => /\ curl'.killed
       /\ curl'.outcome = "rejected"
       /\ curl'.message = <<"Timeout waiting for MCP response">>

C22_CurlFailures ==
    /\ [](curl.spawnError => curl.outcome = "rejected")
    /\ []((curl.pc = "closed" /\ curl.exit # 0) => curl.outcome = "rejected")
    /\ []((curl.pc = "running" /\ curl.outcome # "pending") => curl.killed)
    /\ [](curl.killed => curl.outcome = "rejected")
    /\ [][C22_Step]_vars

\* C22 witness: the timeout fired while the subprocess was still writing:
\* it was killed and the call failed.
C22_Witness ==
    /\ curl.pc = "running" /\ curl.stdout # <<>> /\ curl.buffer # <<>>
    /\ curl.timer = "fired" /\ curl.killed
    /\ curl.outcome = "rejected"

\* ------------------------------------------------------------ retries
\* C23: the bridge does not retry on its own: one call issues at most one
\* session-open GET and at most one message POST, whatever the failure; a
\* call that has failed issues no request any more. (The curl variant
\* spawns its subprocess once, in the executor of its Promise.)
C23_Step ==
    \A p \in Procs :
        (call[p].pc = "done" /\ call'[p].serial = call[p].serial)
        => (call'[p].gets = call[p].gets /\ call'[p].posts = call[p].posts)

C23_NoRetry ==
    /\ [](\A p \in Procs : call[p].gets <= 1 /\ call[p].posts <= 1)
    /\ [][C23_Step]_vars

\* C23 witness: a tool call that acquired a session, posted and failed.
C23_Witness ==
    /\ call[1].pc = "done" /\ call[1].outcome = "rejected"
    /\ call[1].error = "ToolError"
    /\ call[1].gets = 1 /\ call[1].posts = 1

\* The failures among what the invocations of fn settled with.
Failures(log) == {i \in 1..Len(log) : log[i] \in FnErrors}

\* C24: withRetry(fn, retryCount) with retryCount >= 0 invokes fn at most
\* retryCount + 1 times, one after another (an invocation starts only when
\* the one before has settled); it returns the result of the first
\* invocation that succeeds and invokes fn no more; when all
\* retryCount + 1 invocations fail it throws the error of the last one.
C24_Step ==
    retry.pc = "done" => retry'.invokedAt = retry.invokedAt

C24_BoundedAttempts ==
    /\ [](/\ retry.retryCount >= 0 => Len(retry.invokedAt) <= retry.retryCount + 1
          /\ retry.inFlight <= 1
          /\ Len(retry.invokedAt) = Len(retry.log) + retry.inFlight
          /\ \A i \in 1..Len(retry.settledAt) :
                /\ retry.invokedAt[i] <= retry.settledAt[i]
                /\ i < Len(retry.invokedAt)
                     => retry.settledAt[i] <= retry.invokedAt[i + 1])
    /\ [](retry.outcome = "returned"
            => /\ retry.value = retry.log[Len(retry.log)]
               /\ retry.value \in FnValues
               /\ Failures(retry.log) = 1..(Len(retry.log) - 1))
    /\ []((retry.retryCount >= 0 /\ retry.outcome = "threw")
            => /\ Len(retry.log) = retry.retryCount + 1
               /\ Failures(retry.log) = 1..Len(retry.log)
               /\ retry.value = retry.log[Len(retry.log)])
    /\ []((retry.pc = "done" /\ retry.outcome # "returned")
            => retry.outcome = "threw")
    /\ [][C24_Step]_vars

\* C24 witness: retryCount = 2, the first two invocations failed and the
\* third succeeded: its value was returned.
C24_Witness ==
    /\ retry.retryCount = 2 /\ retry.outcome = "returned"
    /\ retry.log = <<"e1", "e2", "v1">> /\ retry.value = "v1"

\* C25: the wait inserted after the failed attempt number k (from 0) is
\* min(100 * 2^k, 2000) ms: the waits double from 100 ms and never exceed
\* 2000 ms, the next invocation starts no sooner than the wait after the
\* failure, and no wait is inserted after the last failed attempt before
\* the error is thrown.
C25_BackoffSchedule ==
    /\ \A k \in 1..Len(retry.waits) :
          /\ retry.waits[k] = MinOf(100 * (2 ^ (k - 1)), 2000)
          /\ retry.waits[k] <= 2000
          /\ k = 1 => retry.waits[k] = 100
          /\ (k > 1 /\ retry.waits[k] < 2000)
                => retry.waits[k] = 2 * retry.waits[k - 1]
          /\ k < Len(retry.invokedAt)
                => retry.invokedAt[k + 1] >= retry.settledAt[k] + retry.waits[k]
          /\ retry.log[k] \in FnErrors
    /\ retry.retryCount >= 0 => Len(retry.waits) <= retry.retryCount
    /\ (retry.retryCount >= 0 /\ retry.outcome = "threw")
          => Len(retry.waits) = Len(retry.log) - 1
    /\ retry.pc = "waiting" => Len(retry.waits) = Len(retry.log)

\* C25 witness: six failures in a row, with the waits 100, 200, 400, 800,
\* 1600 and 2000 ms, and the error thrown after the seventh.
C25_Witness ==
    /\ retry.outcome = "threw"
    /\ retry.waits = <<100, 200, 400, 800, 1600, 2000>>
    /\ Len(retry.log) = 7

\* ------------------------------------------------------------ request ids
\* C28 (as stated): any two tools/call requests issued by one process carry
\* different JSON-RPC ids, also when they are built in the same
\* millisecond.
C28_UniqueRequestIds ==
    \A i, j \in 1..Len(reqs) : i # j => reqs[i].id # reqs[j].id

\* ------------------------------------------------------------ stale sessions
\* The tool call of caller 1 posted with its session id and the POST failed.
PostFailed ==
    /\ call[1].pc = "done" /\ call[1].posts = 1
    /\ call[1].outcome = "rejected" /\ call[1].error = "ToolError"

\* C26 (as stated): a session id the remote service no longer accepts makes
\* one tool call fail; the calls that follow the failed one do not POST
\* with the same id again: the tool call started after a failed POST is
\* not handed the id of that POST by getSession for its own POST.
C26_Step ==
    (PostFailed /\ call'[1].serial > call[1].serial
        /\ call'[1].pc = "haveSession")
    => call'[1].sessionId # call[1].sessionId

C26_StaleFailsOnce == [][C26_Step]_vars

\* ------------------------------------------------------------ concurrent keys
\* C27 (as stated): calls for different keys are independent: the step by
\* which a getSession call ends its acquisition only adds or replaces the
\* record of its own key; it never removes or alters the record of another
\* key, also when getSession calls for different keys overlap.
C27_Step ==
    \A p \in Procs :
        (call[p].pc = "createSession" /\ call'[p].pc # "createSession")
        => \A r \in file.sessions :
              r.key # CacheKey(call[p].endpoint, call[p].apiKey)
              => r \in file'.sessions

C27_KeysIndependent == [][C27_Step]_vars

\* ------------------------------------------------------------ error surface
\* The errors of the transport itself: the rejection of fetch and the
\* rejection of a read of the response stream.
RawTransportErrors == { <<"fetch failed">>, <<"read failed">> }

\* C29 (as stated): every failure of session acquisition is an error of the
\* acquisition's own kind: transport-level errors are wrapped and never
\* reach the caller as the raw underlying error. (getSession passes on
\* what createSession throws.)
C29_OneErrorSurface ==
    acq.outcome = "threw" => acq.message \notin RawTransportErrors

\* ------------------------------------------------------------ HTTP status
\* C30 (as stated): a non-success HTTP status is a hard failure: when the
\* message POST is answered with a non-success status the tool call fails,
\* with the response body in its error, and never resolves, whatever the
\* body holds, in the session-based invoker and in the curl variant.
C30_StatusIsHardFailure ==
    (post.pc = "done" /\ ~post.status.ok)
    => (post.outcome = "rejected" /\ Includes(post.message, post.body))

\* ------------------------------------------------------------ streams of several payloads
\* The lines of a stream that its newline has ended.
CompleteLines(b) == SubSeq(Split(b), 1, Len(Split(b)) - 1)

\* Whether a line is a data: line whose payload is the JSON document d.
LineHolds(line, d) ==
    line # <<>> /\ Head(line) = "data:" /\ Trim(Tail(line)) = d.text

\* A terminal payload carries an error field or a result field.
CarriesError(v) == Get(v, "error") # Undef
CarriesResult(v) == Get(v, "result") # Undef
IsTerminalLine(line) ==
    \E d \in AllDocs :
        LineHolds(line, d) /\ (CarriesError(d.value) \/ CarriesResult(d.value))

HasTerminalLine(b) ==
    \E i \in 1..Len(CompleteLines(b)) : IsTerminalLine(CompleteLines(b)[i])

\* The value of the first terminal payload of a stream that has one.
FirstTerminal(b) ==
    LET lines == CompleteLines(b)
        i == CHOOSE i \in 1..Len(lines) :
                 IsTerminalLine(lines[i])
                     /\ \A j \in 1..(i - 1) : ~IsTerminalLine(lines[j])
    IN (CHOOSE d \in AllDocs : LineHolds(lines[i], d)).value

\* C31 (as stated, for the streams whose first line is a terminal payload):
\* the outcome of a session-based tool call is decided by the first terminal
\* data: payload in stream order, error before content before bare result:
\* when that payload carries an error field or result.isError the call
\* fails, also when it carries result.content, and otherwise the call
\* resolves; no later payload is acted on.
C31_FirstTerminalDecides ==
    (SseReadToEnd /\ CompleteLines(body) # <<>>
        /\ IsTerminalLine(CompleteLines(body)[1]))
    => LET v == FirstTerminal(body)
       IN sse.outcome =
              IF CarriesError(v) \/ Truthy(OptGet(Get(v, "result"), "isError"))
              THEN "rejected" ELSE "resolved"

\* C32 (as stated): a payload that carries a result field with no content
\* and no error resolves the call with exactly that result value, whatever
\* the value: an object, and also false, 0 or the empty string.
C32_BareResultResolves ==
    (SseReadToEnd /\ CompleteLines(body) # <<>>
        /\ IsTerminalLine(CompleteLines(body)[1]))
    => LET v == FirstTerminal(body)
           result == Get(v, "result")
       IN (CarriesResult(v) /\ ~CarriesError(v)
              /\ OptGet(result, "content") = Undef
              /\ OptGet(result, "isError") = Undef)
          => (sse.outcome = "resolved" /\ sse.value = result)

\* C33 (as stated): non-terminal frames never settle a session-based tool
\* call: a data: line whose payload is not valid JSON, whatever its text
\* (also text holding the words 'error' or 'MCP'), or is valid JSON with
\* neither an error nor a result is skipped, and the following line decides.
C33_NonTerminalSkipped ==
    \A a \in NonTerminalTexts :
        /\ (SseReadToEnd /\ body = DataLine(a) \o DataLine(ResultOkText))
               => (sse.outcome = "resolved" /\ sse.value = InnerOkValue)
        /\ (SseReadToEnd /\ body = DataLine(a) \o DataLine(ErrorText))
               => (sse.outcome = "rejected" /\ sse.message = <<"bad tool">>)

\* ------------------------------------------------------------ content text
\* The text an element of a content array stands for: its text field when
\* it is an object carrying one, itself when it is text.
CarriesText(c) == c.t = "obj" /\ "text" \in DOMAIN c.v /\ c.v["text"].t = "str"
ElementText(c) == IF CarriesText(c) THEN c.v["text"].v ELSE c.v

\* C34 (as stated): for an array-valued content, the text that is
\* normalized is the join with newlines of each element's text field when
\* the element is an object carrying one, the empty string included, and of
\* the element itself when it is already text.
C34_ElementText ==
    (norm.pc = "normalized" /\ norm.content.t = "arr"
        /\ \A i \in 1..Len(norm.content.v) :
               norm.content.v[i].t = "str" \/ CarriesText(norm.content.v[i]))
    => LET text == JoinLines([i \in 1..Len(norm.content.v) |->
                                 ElementText(norm.content.v[i])])
           parsed == JsonParse(text, quotes)
       IN /\ ~norm.threw
          /\ norm.value = IF LooksLikeJson(text) /\ parsed.ok
                          THEN parsed.value ELSE Str(text)

\* ------------------------------------------------------------ settling once
\* The outcome of a call as its caller sees it.
Settlement(st) == <<st.outcome, st.value, st.message>>

\* C35: each tool call settles exactly once under every interleaving of its
\* events. A settled call keeps its outcome whatever happens later; in the
\* curl variant one of timeout, spawn error and close decides; in the
\* session-based invoker a result or error delivered before the timer fires
\* clears the timer, and after a timeout failure no late payload resolves
\* the call. A call that has finished has settled.
C35_Step ==
    /\ sse.outcome # "pending" => Settlement(sse') = Settlement(sse)
    /\ curl.outcome # "pending" => Settlement(curl') = Settlement(curl)
    /\ sse.hasResult => (sse.timer = "cleared" /\ sse'.timer = "cleared")
    /\ sse.timer = "fired" => sse'.outcome = "rejected"
    /\ sse'.pc = "finished" => sse'.outcome # "pending"
    /\ curl'.pc = "closed" => curl'.outcome # "pending"
    /\ curl'.settled <=> curl'.outcome # "pending"

C35_SettlesOnce == [][C35_Step]_vars

\* C35 witness: the timer of a session-based call fired, the call failed
\* with the timeout, and the cancelled read returned afterwards.
C35_Witness ==
    /\ sse.timer = "fired" /\ sse.pc = "finished"
    /\ sse.outcome = "rejected"
    /\ sse.message = <<"MCP request timed out waiting for response">>

\* ------------------------------------------------------------ failed acquisition
\* C36: a getSession whose acquisition fails writes nothing: the step in
\* which createSession throws leaves the session store as it was and fails
\* the call; the next getSession for that key finds no record of the failed
\* attempt and attempts the acquisition again.
C36_Step ==
    /\ (call[1].pc = "createSession" /\ call'[1].pc = "done"
           /\ call'[1].error = "SessionError")
       => (file' = file /\ call'[1].outcome = "rejected"
              /\ call'[1].sessionId = NoId)
    /\ (call[1].pc = "done" /\ call[1].error = "SessionError"
           /\ call'[1].serial # call[1].serial
           /\ call'[1].endpoint = call[1].endpoint
           /\ call'[1].apiKey = call[1].apiKey)
       => (call'[1].pc = "createSession" /\ call'[1].gets = 1)

C36_FailureStoresNothing == [][C36_Step]_vars

\* C36 witness: an acquisition failed while the store held a record,
\* which is still there.
C36_Witness ==
    /\ call[1].pc = "done" /\ call[1].error = "SessionError"
    /\ file.shape = "store" /\ file.sessions # {}

\* ------------------------------------------------------------ clearing the store
\* The records of a store that getSession would still return at time t.
LiveRecords(f, t) == {r \in f.sessions : IsValid(r, t)}

\* What the two clear operations leave, for a write that succeeds or fails:
\* clearExpiredSessions exactly the records getSession would still return
\* (those with expiresAt > now), clearAllSessions an empty store.
ClearsAsStated(writeOk) ==
    HasSessions(LoadSessions(file))
    => /\ AfterClearExpired(file, now, writeOk).shape = "store"
       /\ AfterClearExpired(file, now, writeOk).sessions = LiveRecords(file, now)
       /\ AfterClearAll(file, writeOk) = EmptyStore

C37_Step ==
    /\ (LoadSessions(file) = EmptyStore /\ call'[1].serial # call[1].serial)
       => (call'[1].pc = "createSession" /\ call'[1].gets = 1)
    /\ (\E writeOk \in BOOLEAN : ClearExpiredSessions(writeOk))
       => (file' = file \/ file'.sessions = LiveRecords(file, now))
    /\ (\E writeOk \in BOOLEAN : ClearAllSessions(writeOk))
       => (file' = file \/ file' = EmptyStore)

C38_AlwaysInvokes ==
    /\ retry.pc = "done" => Len(retry.invokedAt) >= 1
    /\ retry.outcome = "threw" => retry.value \in FnErrors

\* ------------------------------------------------------------ chunking
\* The call that receives the whole response body as one chunk and reads it
\* to its end.
InOneChunk == SseDrain(SseStart(<<body>>, TRUE), quotes)

\* C39: the outcome of a session-based tool call does not depend on how the
\* stream is split into chunks: wherever the bytes received so far ended,
\* also inside a data: line or inside its JSON payload, reading the rest of
\* the stream to its end gives the outcome the unsplit stream gives.
C39_ChunkingIndependent ==
    (sse.pc \in {"reading", "finished"} /\ ~sse.readError /\ sse.timer # "fired")
    => Settlement(SseDrain([sse EXCEPT !.closes = TRUE], quotes))
           = Settlement(InOneChunk)

\* C39 witness: a chunk ended inside the JSON payload of a data: line; the
\* unfinished line is held back until the rest arrives.
C39_Witness ==
    /\ sse.pc = "reading" /\ sse.chunks # <<>>
    /\ Len(sse.buffer) >= 2 /\ Head(sse.buffer) = "data:"

\* ------------------------------------------------------------ end of the stream
\* C40 (as stated): a terminal payload is not lost at the end of the
\* stream: when the last data: line of a stream that ends carries a result
\* or an error and has no newline after it, the payload still decides the
\* outcome.
C40_LastLineDecides ==
    SseReadToEnd
    => /\ body \in {OpenLine(ResultOkText),
                    DataLine(NotificationText) \o OpenLine(ResultOkText)}
          => (sse.outcome = "resolved" /\ sse.value = InnerOkValue)
       /\ body \in {OpenLine(ErrorText),
                    DataLine(NotificationText) \o OpenLine(ErrorText)}
          => (sse.outcome = "rejected" /\ sse.message = <<"bad tool">>)

====
